---------------------------- MODULE Spec2Model ----------------------------
(***************************************************************************)
(* A model of the SOC assistant's core: the intent router and data         *)
(* assembler (SOCAgent.run, src/src/core/agent.py), the scheduled task      *)
(* runner (ProactiveAgentManager, src/src/core/proactive_agents.py) and the *)
(* record store they write to (DatabaseManager, src/src/database/models.py).*)
(*                                                                         *)
(* Text is modelled as sequences of one-character strings, so that         *)
(* str.lower, str.split, str.strip and the substring test `in` are         *)
(* computed as Python computes them.                                       *)
(***************************************************************************)
EXTENDS Integers, Sequences, FiniteSets, TLC

(***************************************************************************)
(* Bounds of the model.                                                    *)
(***************************************************************************)
\* A prompt is built from at most MaxFragments fragments of Fragments.
MaxFragments == 3

(***************************************************************************)
(* Text helpers (Python str semantics on the characters the model uses).   *)
(***************************************************************************)
\* str.lower() on one character
LowerChar(c) ==
    CASE c = "W" -> "w"
      [] c = "I" -> "i"
      [] c = "N" -> "n"
      [] c = "A" -> "a"
      [] c = "G" -> "g"
      [] c = "E" -> "e"
      [] c = "T" -> "t"
      [] c = "P" -> "p"
      [] OTHER -> c

\* str.lower()
Lower(s) == [i \in 1..Len(s) |-> LowerChar(s[i])]

\* `sub in s` for Python strings
Contains(s, sub) ==
    \E i \in 0..(Len(s) - Len(sub)) : \A j \in 1..Len(sub) : s[i + j] = sub[j]

\* any(k in s for k in keys)
ContainsAny(s, keys) == \E k \in keys : Contains(s, k)

\* the characters str.split() treats as separators (the model uses the space)
Whitespace == {" "}

RECURSIVE SplitFrom(_, _, _)
\* str.split(): the maximal runs of non-whitespace characters, in order;
\* `cur` is the token being read from position i on.
SplitFrom(s, i, cur) ==
    IF i > Len(s)
    THEN IF cur = <<>> THEN <<>> ELSE <<cur>>
    ELSE IF s[i] \in Whitespace
         THEN IF cur = <<>>
              THEN SplitFrom(s, i + 1, <<>>)
              ELSE <<cur>> \o SplitFrom(s, i + 1, <<>>)
         ELSE SplitFrom(s, i + 1, Append(cur, s[i]))

Split(s) == SplitFrom(s, 1, <<>>)

RECURSIVE LStrip(_, _)
LStrip(w, chars) ==
    IF w # <<>> /\ Head(w) \in chars THEN LStrip(Tail(w), chars) ELSE w

RECURSIVE RStrip(_, _)
RStrip(w, chars) ==
    IF w # <<>> /\ w[Len(w)] \in chars
    THEN RStrip(SubSeq(w, 1, Len(w) - 1), chars)
    ELSE w

\* str.strip(chars)
Strip(w, chars) == RStrip(LStrip(w, chars), chars)

RECURSIVE JoinWith(_, _)
\* sep.join(parts)
JoinWith(parts, sep) ==
    IF parts = <<>> THEN <<>>
    ELSE IF Len(parts) = 1 THEN parts[1]
    ELSE parts[1] \o sep \o JoinWith(Tail(parts), sep)

(***************************************************************************)
(* The keyword tables of SOCAgent.run.                                     *)
(***************************************************************************)
FetchPhrases ==
    { <<"g","o"," ","a","h","e","a","d">>, <<"f","e","t","c","h">>, <<"g","e","t">>, <<"s","h","o","w"," ","m","e">>, <<"p","u","l","l">>, <<"r","e","t","r","i","e","v","e">>, <<"c","h","e","c","k">>,
      <<"h","o","w"," ","m","a","n","y">>, <<"w","h","a","t">>, <<"t","e","l","l"," ","m","e">>, <<"l","i","s","t">>, <<"f","i","n","d">>, <<"s","e","a","r","c","h">>, <<"y","e","s">>, <<"d","o"," ","i","t">>,
      <<"c","u","r","l">>, <<"q","u","e","r","y">>, <<"a","p","i"," ","c","a","l","l">>, <<"d","i","r","e","c","t">> }

AgentMarkers == { <<"w","i","n","-">>, <<"s","r","v","-">>, <<"a","g","e","n","t">> }

StripChars == { ".", ",", "!", "?" }

SeverityWords == { <<"c","r","i","t","i","c","a","l">>, <<"s","e","v","e","r","i","t","y">>, <<"h","i","g","h">>, <<"i","s","s","u","e">> }

RecentWords == { <<"a","l","e","r","t">>, <<"r","e","c","e","n","t">>, <<"l","a","t","e","s","t">>, <<"e","v","e","n","t">> }

AgentWords == { <<"a","g","e","n","t">>, <<"h","o","s","t">>, <<"m","a","c","h","i","n","e">>, <<"s","e","r","v","e","r">> }

VulnWords == { <<"v","u","l","n","e","r","a","b">>, <<"c","v","e">>, <<"e","x","p","l","o","i","t">>, <<"p","a","t","c","h">> }

AuthWords == { <<"a","u","t","h">>, <<"l","o","g","i","n">>, <<"p","a","s","s","w","o","r","d">>, <<"f","a","i","l","e","d">> }

\* agent_name = None
NoAgent == <<>>

Win007 == <<"w","i","n","-","0","0","7">>

Critical == <<"c","r","i","t","i","c","a","l">>

\* the marker _execute_agent_task puts before a job's prompt
ProactivePrefix == <<"P","r","o","a","c","t","i","v","e"," ","T","a","s","k"," ","P","r","o","m","p","t",":"," ">>

(***************************************************************************)
(* Inputs: the prompts a user can type in the model.                       *)
(***************************************************************************)
Fragments ==
    { <<"s","h","o","w"," ","m","e">>, <<"f","o","r","g","e","t">>,
      <<"c","r","i","t","i","c","a","l">>, <<"a","l","e","r","t","s">>, <<"c","v","e">>, <<"f","a","i","l","e","d">>,
      <<"w","i","n","-","0","0","7">>, <<"W","I","N","-","0","0","7","?">>, <<"a","g","e","n","t">> }

FragmentSeqs == UNION { [1..n -> Fragments] : n \in 1..MaxFragments }

UserPrompts == { JoinWith(fs, <<" ">>) : fs \in FragmentSeqs }

(***************************************************************************)
(* State.                                                                  *)
(***************************************************************************)
VARIABLES
    \* ---- one call of SOCAgent.run (a turn) ----
    run_pc,         \* where the turn is in SOCAgent.run
    run_caller,     \* "chat", or the id of the firing that invoked the agent
    prompt,         \* run's argument
    prompt_lower,   \* the local prompt_lower
    agent_name,     \* the local agent_name (NoAgent for None)
    tool_results,   \* the local list tool_results, as assembled so far
    client_calls,   \* operations the turn invoked on self.wazuh_client, in order
    llm_calls,      \* number of self.llm.invoke calls of the turn
    run_result      \* what run returned

turnVars == << run_pc, run_caller, prompt, prompt_lower, agent_name, tool_results,
               client_calls, llm_calls, run_result >>


(***************************************************************************)
(* The scheduled task runner: inputs.                                      *)
(***************************************************************************)
\* job names a caller can register
Names == { "daily-scan", "audit" }

\* the name used where a single job is followed through its life
OneName == { "daily-scan" }

\* the (interval_minutes, prompt) pairs a caller registers a job with
FirstSchedule ==
    [minutes |-> 30,
     prompt |-> <<"c","h","e","c","k"," ","c","r","i","t","i","c","a","l"," ","a","l","e","r","t","s">>]

SecondSchedule == [minutes |-> 5, prompt |-> <<"h","e","l","l","o">>]

Schedules == { FirstSchedule, SecondSchedule }

\* a schedule whose prompt names a monitored host
HostSchedule ==
    [minutes |-> 60, prompt |-> <<"g","e","t"," ","w","i","n","-","0","0","7">>]

\* retries ranges over 0..MaxRetries
MaxRetries == 1

\* at most MaxFirings firings begin in a behaviour (bounds the record store)
MaxFirings == 2

\* APScheduler's job default max_instances, which add_job (lines 120-126)
\* does not override
MaxInstances == 1

\* last_run IS NULL
NoRun == 0

(***************************************************************************)
(* State of the runner, of its scheduler and of the record store.          *)
(***************************************************************************)
VARIABLES
    jobs,           \* ProactiveAgentManager._jobs: a dict name -> handle
    scheduler,      \* ProactiveAgentManager._scheduler: its state ("none" before
                    \* it is created), its job store and its pending jobs
    instances,      \* the executor's count of running instances per job id
    firings,        \* the executions of run_async_job in progress
    firings_begun,  \* how many firings have begun
    call_pc,        \* "idle", or "in_shutdown" while shutdown() waits
    last_error,     \* the last public operation an exception escaped from
    threads,        \* the callers of RaceSpec: what each is executing
    store_flaky,    \* whether calls on the record store can raise
    db_agents,      \* table proactive_agents, in rowid order
    db_messages,    \* table messages, in id order
    db_tools_log    \* table tools_log, in id order

mgrVars == << jobs, scheduler, instances, firings, firings_begun, call_pc,
              last_error, threads, store_flaky, db_agents, db_messages,
              db_tools_log >>

\* the caller threads of RaceSpec
Threads == { "A", "B" }

NoSchedule == [minutes |-> 0, prompt |-> <<>>]

\* a caller that is not inside an operation; ended tells how its last call
\* ended ("returned", "raised")
IdleThread ==
    [op |-> "none", pc |-> "idle", name |-> "none", sch |-> NoSchedule,
     ended |-> "none"]

\* the outcomes of a call on the record store: it succeeds, or it raises
StoreOutcomes == IF store_flaky THEN BOOLEAN ELSE {TRUE}

(***************************************************************************)
(* The alert summary (WazuhAPIClient.get_alert_summary and the tool of the *)
(* same name of the MCP server): inputs and state.                         *)
(***************************************************************************)
\* the fetch returns at most MaxAlerts alerts
MaxAlerts == 2

\* the rule levels of the alerts
Levels == -5..30

\* the boundaries of the tests of wazuh_client.py lines 205, 207 and 209
CriticalLevel == 13

HighLevel == 8

MediumLevel == 4

\* the default of alert.get("rule", {}).get("level", 0)
DefaultLevel == 0

\* an alert: its rule's level, or no level at all
Alerts == { [rule |-> << l >>] : l \in Levels } \cup { [rule |-> << >>] }

AlertLists == UNION { [1..n -> Alerts] : n \in 0..MaxAlerts }

VARIABLES
    summary_impl,   \* "client" (wazuh_client.py) or "mcp" (wazuh_mcp_server.py)
    fetched,        \* what the alert fetch returns: its success flag and alerts
    summary_pc,     \* "start", "loop", "returned"
    summary,        \* the local dict summary
    alert_index,    \* how many alerts the for loop has consumed
    summary_result  \* what get_alert_summary returned

sumVars == << summary_impl, fetched, summary_pc, summary, alert_index,
             summary_result >>

(***************************************************************************)
(* A caller of the record store (DatabaseManager) alone: inputs and state. *)
(***************************************************************************)
\* the caller makes at most MaxStoreCalls calls
MaxStoreCalls == 4

VARIABLES
    store_calls     \* the calls made on the record store, in order

(***************************************************************************)
(* A caller of the runner's operations on two names: state.                *)
(***************************************************************************)
VARIABLES
    last_call       \* the last operation the caller of RegistrySpec called:
                    \* its name, its argument, and whether the argument had
                    \* a handle in _jobs when it was called

(***************************************************************************)
(* A caller that pauses a job: state.                                      *)
(***************************************************************************)
VARIABLES
    paused_at       \* the handle and the persisted config of the job as the
                    \* pause call that no resume or register has followed
                    \* found them, and whether unregister or shutdown has
                    \* been called since

(***************************************************************************)
(* The critical alerts (WazuhAPIClient.get_critical_alerts): inputs and     *)
(* state.  The alerts the indexer holds within the lookback window are      *)
(* written as runs of equal alerts, newest first.                           *)
(***************************************************************************)
\* the window is made of at most MaxRuns runs
MaxRuns == 2

\* limit=500 of the fetch of get_critical_alerts (wazuh_client.py line 171)
FetchLimit == 500

\* critical_alerts[:50] (wazuh_client.py line 184)
DetailCap == 50

\* an agent other than win-007
Srv01 == <<"s","r","v","-","0","1">>

\* an alert of the window: its rule (a level at the boundary, or no level)
\* and the name of its agent
WindowAlerts ==
    { [rule |-> r, agent |-> a] :
        r \in { << CriticalLevel - 1 >>, << CriticalLevel >>, << >> },
        a \in { Win007, Srv01 } }

RunLengths == { 1, DetailCap, FetchLimit }

WindowRuns == { [alert |-> al, count |-> c] : al \in WindowAlerts, c \in RunLengths }

Windows == UNION { [1..n -> WindowRuns] : n \in 0..MaxRuns }

VARIABLES
    crit_window,    \* the runs of alerts the indexer holds within the window
    crit_scope,     \* the argument agent_name (NoAgent when None)
    crit_pc,        \* "idle", "start", "fetched", "returned"
    alerts_result,  \* the local alerts_result
    crit_result     \* what get_critical_alerts returned

critVars == << crit_window, crit_scope, crit_pc, alerts_result, crit_result >>

(***************************************************************************)
(* Callers of save_message and get_all_messages: inputs and state.          *)
(***************************************************************************)
\* the callers save at most MaxMessages messages
MaxMessages == 3

\* session ids: the default of save_message, one made by create_new_session,
\* and the empty string
SessionIds == { "default", "session_1", "" }

\* the argument None
NoneArg == "<None>"

Roles == { "user", "assistant" }

Contents == { "hello", "status?" }

VARIABLES
    msg_saved,      \* the arguments of the save_message calls, in call order
    msg_got         \* the last get_all_messages call: its session_id, the
                    \* list it returned, and how many save_message calls
                    \* preceded it

msgVars == << msg_saved, msg_got >>

(***************************************************************************)
(* The preferences table and the DatabaseManager instances that initialise *)
(* the store: inputs and state.                                             *)
(***************************************************************************)
\* the instances that share the database file: the module's _db, which
\* main.py initialises, and the runner's, which its first save initialises
DbManagers == { "main", "runner" }

\* Config.DEFAULT_PROACTIVE_INTERVAL (config/settings.py line 45)
DefaultProactiveInterval == 60

Intervals == { 30, DefaultProactiveInterval, 120 }

VARIABLES
    db_prefs,       \* table preferences, in id order
    init_pc,        \* per instance, where its init_db is: "new" before its
                    \* first call, "insert" when its SELECT COUNT(*) has
                    \* returned 0, "done" when it has returned
    prefs_updated,  \* the arguments of the last update_user_preferences
    prefs_got       \* what the last get_user_preferences returned, and the
                    \* update that preceded it

prefVars == << db_prefs, init_pc, prefs_updated, prefs_got >>

(***************************************************************************)
(* The chat tab (ChatInterface.render_chat_tab) with a prompt that does not *)
(* pass the fetch gate: inputs and state.                                   *)
(***************************************************************************)
\* the user submits at most MaxTurns prompts
MaxTurns == 6

\* limit=10 of the history loaded for the agent (chat.py line 220)
HistoryLimit == 10

\* previous_messages[-5:] (agent.py line 379)
ReplayWindow == 5

VARIABLES
    chat_session,    \* st.session_state.current_session
    chat_pc,         \* "idle", "saved", "loaded", "ran"
    user_input,      \* the prompt submitted
    recent_messages, \* the local recent_messages
    llm_messages     \* the messages run hands to the model, after the system
                     \* message

chatVars == << chat_session, chat_pc, user_input, recent_messages, llm_messages >>

\* the state the other parts of the model leave alone
extraVars == << critVars, msgVars, prefVars, chatVars >>

\* what the runner's operations and firings and the intent router leave alone
sideVars == << sumVars, store_calls, last_call, paused_at, extraVars >>

(***************************************************************************)
(* DatabaseManager: the statements each method executes.                   *)
(***************************************************************************)
RowsNamed(rows, name) == { i \in 1..Len(rows) : rows[i].name = name }

\* a variant of save_proactive_agent that always inserts
SaveProactiveAgent_InsertOnly(rows, name, p, minutes) ==
    Append(rows, [name |-> name, prompt |-> p,
                  interval_minutes |-> minutes, last_run |-> NoRun])

\* save_proactive_agent: UPDATE ... WHERE name=?; INSERT if rowcount == 0
SaveProactiveAgent(rows, name, p, minutes) ==
    IF RowsNamed(rows, name) # {}
    THEN [i \in 1..Len(rows) |->
            IF rows[i].name = name
            THEN [rows[i] EXCEPT !.prompt = p, !.interval_minutes = minutes]
            ELSE rows[i]]
    ELSE Append(rows, [name |-> name, prompt |-> p,
                       interval_minutes |-> minutes, last_run |-> NoRun])

\* a variant of update_proactive_agent_last_run that inserts a row for a name
\* the table does not hold
UpdateLastRun_Upserting(rows, name, now) ==
    IF RowsNamed(rows, name) # {}
    THEN [i \in 1..Len(rows) |->
            IF rows[i].name = name THEN [rows[i] EXCEPT !.last_run = now] ELSE rows[i]]
    ELSE Append(rows, [name |-> name, prompt |-> << >>,
                       interval_minutes |-> 0, last_run |-> now])

\* update_proactive_agent_last_run: UPDATE ... SET last_run=? WHERE name=?
UpdateLastRun(rows, name, now) ==
    [i \in 1..Len(rows) |->
        IF rows[i].name = name THEN [rows[i] EXCEPT !.last_run = now] ELSE rows[i]]

\* delete_proactive_agent: DELETE ... WHERE name=?
DeleteProactiveAgent(rows, name) ==
    SelectSeq(rows, LAMBDA r : r.name # name)

\* the assistant messages _execute_agent_task saves (lines 49-52 and 60-63);
\* fid tells which firing saved the message
SuccessMessage(f) ==
    [role |-> "assistant", session_id |-> "default", kind |-> "update",
     name |-> f.name, attempt |-> 0, body |-> f.response, fid |-> f.fid]

ErrorMessage(f) ==
    [role |-> "assistant", session_id |-> "default", kind |-> "error",
     name |-> f.name, attempt |-> f.attempt + 1, body |-> "exception", fid |-> f.fid]

\* the tool-log entry of line 53
ToolLog(f) ==
    [tool_name |-> f.name, usage |-> f.prompt, session_id |-> "default",
     fid |-> f.fid]

\* save_message (models.py 98-108): the INSERT; the id is the row's position
SaveMessageRow(rows, role, content, session_id) ==
    Append(rows, [role |-> role, content |-> content, session_id |-> session_id])

\* `if session_id:` on an argument that is None or a str
Truthy(x) == x \notin { NoneArg, "" }

\* the argument limit when it is None; `if limit:` is false for None and 0
NoLimit == 0

\* get_all_messages (models.py 122-147): WHERE session_id = ? `if
\* session_id`, ORDER BY id, LIMIT ? `if limit`, and the dicts of the rows
GetAllMessages(rows, session_id, limit) ==
    LET selected == IF Truthy(session_id)
                    THEN SelectSeq(rows, LAMBDA r : r.session_id = session_id)
                    ELSE rows
        limited == IF limit # NoLimit /\ limit < Len(selected)
                   THEN SubSeq(selected, 1, limit)
                   ELSE selected
    IN  [i \in 1..Len(limited) |->
            [role |-> limited[i].role, content |-> limited[i].content]]

NoGet == [called |-> FALSE, session_id |-> NoneArg, rows |-> << >>, after |-> 0]

MsgIdle == msg_saved = << >> /\ msg_got = NoGet

MsgFrame ==
    UNCHANGED << turnVars, sumVars, store_calls, last_call, paused_at, critVars,
                 prefVars, chatVars, jobs, scheduler, instances, firings, firings_begun, call_pc,
                 last_error, threads, store_flaky, db_agents, db_tools_log >>

\* db.save_message(role, content, session_id)
Msg_Save ==
    /\ Len(msg_saved) < MaxMessages
    /\ \E role \in Roles, content \in Contents, sid \in SessionIds :
         /\ db_messages' = SaveMessageRow(db_messages, role, content, sid)
         /\ msg_saved' = Append(msg_saved, [role |-> role, content |-> content,
                                            session_id |-> sid])
    /\ UNCHANGED msg_got
    /\ MsgFrame

\* db.get_all_messages(session_id)
Msg_GetAll ==
    /\ \E sid \in SessionIds :
         msg_got' = [called |-> TRUE, session_id |-> sid,
                     rows |-> GetAllMessages(db_messages, sid, NoLimit),
                     after |-> Len(msg_saved)]
    /\ UNCHANGED << db_messages, msg_saved >>
    /\ MsgFrame

\* seq[-n:]
LastN(seq, n) ==
    IF Len(seq) <= n THEN seq ELSE SubSeq(seq, Len(seq) - n + 1, Len(seq))

\* agent.py 378-385: the last messages of previous_messages, role-tagged,
\* and then the prompt as a human message
ReplayedMessages(previous_messages, p) ==
    LET tail == LastN(previous_messages, ReplayWindow)
        tagged == SelectSeq(tail, LAMBDA m : m.role \in { "user", "assistant" })
    IN  Append(tagged, [role |-> "user", content |-> p])

\* the chat tab is idle in the default session
ChatIdle ==
    /\ chat_session = "default"
    /\ chat_pc = "idle"
    /\ user_input = ""
    /\ recent_messages = << >>
    /\ llm_messages = << >>

ChatFrame ==
    UNCHANGED << turnVars, sumVars, store_calls, last_call, paused_at, critVars,
                 msgVars, prefVars, jobs, scheduler, instances, firings,
                 firings_begun, call_pc, last_error, threads, store_flaky,
                 db_agents, db_tools_log >>

\* "New Session" (chat.py 172-176): create_new_session() names a session
Chat_NewSession ==
    /\ chat_pc = "idle"
    /\ chat_session = "default"
    /\ chat_session' = "session_1"
    /\ UNCHANGED << chat_pc, user_input, recent_messages, llm_messages, db_messages >>
    /\ ChatFrame

\* render_chat_input (chat.py 143-155): the prompt is saved as a user message
Chat_Submit ==
    /\ chat_pc = "idle"
    /\ Len(db_messages) < 2 * MaxTurns
    /\ \E p \in Contents :
         /\ user_input' = p
         /\ db_messages' = SaveMessageRow(db_messages, "user", p, chat_session)
    /\ chat_pc' = "saved"
    /\ UNCHANGED << chat_session, recent_messages, llm_messages >>
    /\ ChatFrame

\* chat.py 220: recent_messages = load_chat_history(current_session, limit=10)
Chat_LoadHistory ==
    /\ chat_pc = "saved"
    /\ recent_messages' = GetAllMessages(db_messages, chat_session, HistoryLimit)
    /\ chat_pc' = "loaded"
    /\ UNCHANGED << chat_session, user_input, llm_messages, db_messages >>
    /\ ChatFrame

\* chat.py 223 and agent.py 365-389: run(user_input, recent_messages) in the
\* no-fetch branch builds the messages and invokes the model
Chat_RunAgent ==
    /\ chat_pc = "loaded"
    /\ llm_messages' = ReplayedMessages(recent_messages, user_input)
    /\ chat_pc' = "ran"
    /\ UNCHANGED << chat_session, user_input, recent_messages, db_messages >>
    /\ ChatFrame

\* display_assistant_response (chat.py 157-164): the response is saved
Chat_SaveResponse ==
    /\ chat_pc = "ran"
    /\ db_messages' = SaveMessageRow(db_messages, "assistant", "response", chat_session)
    /\ chat_pc' = "idle"
    /\ UNCHANGED << chat_session, user_input, recent_messages, llm_messages >>
    /\ ChatFrame

\* the INSERT of init_db (models.py 89-93): the defaults, under the next id
InsertDefaultPreferences(rows) ==
    Append(rows, [id |-> Len(rows) + 1, proactive_enabled |-> TRUE,
                  proactive_interval |-> DefaultProactiveInterval])

\* update_user_preferences (models.py 185-194): UPDATE ... WHERE id=1
UpdateUserPreferences(rows, enabled, interval) ==
    [i \in 1..Len(rows) |->
        IF rows[i].id = 1
        THEN [rows[i] EXCEPT !.proactive_enabled = enabled,
                             !.proactive_interval = interval]
        ELSE rows[i]]

\* get_user_preferences (models.py 170-183): ORDER BY id DESC LIMIT 1, or
\* the defaults when the table is empty
GetUserPreferences(rows) ==
    IF rows # << >>
    THEN [enabled |-> rows[Len(rows)].proactive_enabled,
          interval |-> rows[Len(rows)].proactive_interval]
    ELSE [enabled |-> TRUE, interval |-> DefaultProactiveInterval]

NoUpdate == [called |-> FALSE, enabled |-> TRUE, interval |-> DefaultProactiveInterval]

NoPrefsGot == [called |-> FALSE, value |-> GetUserPreferences(<< >>), after |-> NoUpdate]

\* a fresh database file and instances that have not initialised it
PrefsInit ==
    /\ db_prefs = << >>
    /\ init_pc = [m \in DbManagers |-> "new"]
    /\ prefs_updated = NoUpdate
    /\ prefs_got = NoPrefsGot

PrefsFrame ==
    UNCHANGED << turnVars, mgrVars, sumVars, store_calls, last_call, paused_at,
                 critVars, msgVars, chatVars >>

\* init_db up to line 88: the tables are created if they do not exist and
\* the preferences are counted
InitDb_Count(m) ==
    /\ init_pc[m] \in { "new", "done" }
    /\ init_pc' = [init_pc EXCEPT ![m] = IF Len(db_prefs) = 0 THEN "insert" ELSE "done"]
    /\ UNCHANGED << db_prefs, prefs_updated, prefs_got >>
    /\ PrefsFrame

\* init_db, lines 89-95: the count was 0, the defaults are inserted
InitDb_Insert(m) ==
    /\ init_pc[m] = "insert"
    /\ db_prefs' = InsertDefaultPreferences(db_prefs)
    /\ init_pc' = [init_pc EXCEPT ![m] = "done"]
    /\ UNCHANGED << prefs_updated, prefs_got >>
    /\ PrefsFrame

\* the preference methods are called on an initialised store: main.py calls
\* init_db() (line 35) before it renders anything
TablesExist == \E m \in DbManagers : init_pc[m] = "done"

\* db.update_user_preferences(enabled, interval)
Prefs_Update ==
    /\ TablesExist
    /\ \E enabled \in BOOLEAN, interval \in Intervals :
         /\ db_prefs' = UpdateUserPreferences(db_prefs, enabled, interval)
         /\ prefs_updated' = [called |-> TRUE, enabled |-> enabled, interval |-> interval]
    /\ UNCHANGED << init_pc, prefs_got >>
    /\ PrefsFrame

\* db.get_user_preferences()
Prefs_Get ==
    /\ TablesExist
    /\ prefs_got' = [called |-> TRUE, value |-> GetUserPreferences(db_prefs),
                     after |-> prefs_updated]
    /\ UNCHANGED << db_prefs, init_pc, prefs_updated >>
    /\ PrefsFrame

\* get_proactive_agents() (lines 218-239): the rows as dicts; no statement
\* of the program writes the column enabled, which defaults to 1
GetProactiveAgents(rows) ==
    [i \in 1..Len(rows) |->
        [name |-> rows[i].name, prompt |-> rows[i].prompt,
         interval_minutes |-> rows[i].interval_minutes, enabled |-> TRUE,
         last_run |-> rows[i].last_run]]

\* no call has been made by the caller of StoreSpec
StoreIdle == store_calls = << >>

\* one entry of store_calls
StoreCall(op, name, sch) == [op |-> op, name |-> name, sch |-> sch]

\* the time of a call (datetime.now()): calls are numbered from 1
Now == Len(store_calls) + 1

\* what the calls on the record store leave alone
StoreFrame ==
    UNCHANGED << turnVars, sumVars, last_call, paused_at, extraVars, jobs, scheduler, instances,
                 firings, firings_begun, call_pc, last_error, threads,
                 store_flaky, db_messages, db_tools_log >>

\* db.save_proactive_agent(name, prompt, interval_minutes)
Store_Save ==
    /\ Len(store_calls) < MaxStoreCalls
    /\ \E n \in Names, sch \in Schedules :
         /\ db_agents' = SaveProactiveAgent(db_agents, n, sch.prompt, sch.minutes)
         /\ store_calls' = Append(store_calls, StoreCall("save", n, sch))
    /\ StoreFrame

\* db.update_proactive_agent_last_run(name)
Store_UpdateLastRun ==
    /\ Len(store_calls) < MaxStoreCalls
    /\ \E n \in Names :
         /\ db_agents' = UpdateLastRun(db_agents, n, Now)
         /\ store_calls' = Append(store_calls, StoreCall("last_run", n, NoSchedule))
    /\ StoreFrame

\* db.delete_proactive_agent(name)
Store_Delete ==
    /\ Len(store_calls) < MaxStoreCalls
    /\ \E n \in Names :
         /\ db_agents' = DeleteProactiveAgent(db_agents, n)
         /\ store_calls' = Append(store_calls, StoreCall("delete", n, NoSchedule))
    /\ StoreFrame

(***************************************************************************)
(* The scheduler (APScheduler's BackgroundScheduler with its defaults), as *)
(* the runner uses it.  A job of the store is a live timer.                *)
(***************************************************************************)
NewScheduler == [state |-> "none", jobs |-> <<>>, pending |-> <<>>]

\* a variant of the scheduler property that starts a scheduler that was shut
\* down again, with its pending jobs
Started_Restarting(s) ==
    CASE s.state = "none" -> [s EXCEPT !.state = "running"]
      [] s.state = "stopped" ->
            [state |-> "running", jobs |-> s.pending, pending |-> << >>]
      [] OTHER -> s

\* the scheduler property (lines 25-31): created and started on first use
Started(s) == IF s.state = "none" THEN [s EXCEPT !.state = "running"] ELSE s

\* where the scheduler keeps its jobs: the job store, or, once it has been
\* shut down, the list of pending jobs
Held(s) == IF s.state = "stopped" THEN s.pending ELSE s.jobs

WithHeld(s, js) ==
    IF s.state = "stopped" THEN [s EXCEPT !.pending = js] ELSE [s EXCEPT !.jobs = js]

JobsWithId(js, id) == { i \in 1..Len(js) : js[i].id = id }

FirstWithId(js, id) ==
    CHOOSE i \in JobsWithId(js, id) : \A j \in JobsWithId(js, id) : i <= j

\* get_job(id) finds a job
HasJob(s, id) == JobsWithId(Held(s), id) # {}

\* remove_job(id), when the job exists (JobLookupError otherwise)
RemoveJob(s, id) ==
    LET js == Held(s)
        k == FirstWithId(js, id)
    IN  WithHeld(s, SubSeq(js, 1, k - 1) \o SubSeq(js, k + 1, Len(js)))

\* the Job that add_job(job_wrapper, 'interval', minutes=.., id=name) builds;
\* prompt, target and retries are what the closure of _create_job_wrapper holds
NewJob(name, minutes, p, target, retries) ==
    [id |-> name, minutes |-> minutes, prompt |-> p, target |-> target,
     retries |-> retries, paused |-> FALSE]

\* add_job(..., replace_existing=True): a running scheduler replaces the job
\* of the same id in its store; a stopped one appends to its pending jobs
AddJob(s, job) ==
    IF s.state = "stopped"
    THEN [s EXCEPT !.pending = Append(s.pending, job)]
    ELSE IF JobsWithId(s.jobs, job.id) # {}
         THEN [s EXCEPT !.jobs[FirstWithId(s.jobs, job.id)] = job]
         ELSE [s EXCEPT !.jobs = Append(s.jobs, job)]

\* pause_job(id) / resume_job(id), when the job exists
SetPaused(s, id, b) ==
    LET js == Held(s) IN
    WithHeld(s, [js EXCEPT ![FirstWithId(js, id)].paused = b])

\* the timers that can fire: the unpaused jobs of a running scheduler
LiveTimers(s) ==
    IF s.state = "running"
    THEN { i \in 1..Len(s.jobs) : ~s.jobs[i].paused }
    ELSE {}

(***************************************************************************)
(* get_alert_summary, statement by statement.                              *)
(***************************************************************************)
\* level = alert.get("rule", {}).get("level", 0)
LevelOf(alert) == IF alert.rule = << >> THEN DefaultLevel ELSE alert.rule[1]

\* a variant of the chain of tests whose first test is level > 13
SeverityOf_Exclusive(level) ==
    IF level > CriticalLevel THEN "critical"
    ELSE IF level >= HighLevel THEN "high"
    ELSE IF level >= MediumLevel THEN "medium"
    ELSE "low"

\* the if/elif chain (wazuh_client.py 205-212, wazuh_mcp_server.py 199-206):
\* the key of summary that is incremented
SeverityOf(level) ==
    IF level >= CriticalLevel THEN "critical"
    ELSE IF level >= HighLevel THEN "high"
    ELSE IF level >= MediumLevel THEN "medium"
    ELSE "low"

SeverityKeys == { "critical", "high", "medium", "low" }

\* summary = {"critical": 0, "high": 0, "medium": 0, "low": 0}
ZeroSummary == [k \in SeverityKeys |-> 0]

\* sum(summary.values())
SumValues(d) == d["critical"] + d["high"] + d["medium"] + d["low"]

\* the envelope get_alerts_from_indexer returns when the request failed
FetchFailed == [success |-> FALSE, error |-> "indexer"]

FetchedOk(as) == [success |-> TRUE, alerts |-> as]

\* the list the loop iterates over: alerts_result.get("alerts", []) in the
\* client; in the MCP server what WazuhClient.get_alerts returns, which is
\* [] when the request failed (wazuh_mcp_server.py 111-114)
AlertsToCount ==
    IF fetched.success THEN fetched.alerts ELSE << >>

\* no call of get_alert_summary is modelled
SumIdle ==
    /\ summary_impl = "client"
    /\ fetched = FetchFailed
    /\ summary_pc = "idle"
    /\ summary = ZeroSummary
    /\ alert_index = 0
    /\ summary_result = [success |-> FALSE, error |-> "none"]

\* get_alert_summary is about to be called; the fetch will fail or return a
\* list of alerts
SumInit ==
    /\ summary_impl \in { "client", "mcp" }
    /\ fetched \in { FetchFailed } \cup { FetchedOk(as) : as \in AlertLists }
    /\ summary_pc = "start"
    /\ summary = ZeroSummary
    /\ alert_index = 0
    /\ summary_result = [success |-> FALSE, error |-> "none"]

\* wazuh_client.py 191-201, wazuh_mcp_server.py 189-196: the fetch, the
\* early return of the client on a failed fetch, and the zeroed summary
Summary_Fetch ==
    /\ summary_pc = "start"
    /\ IF summary_impl = "client" /\ ~fetched.success
       THEN /\ summary_result' = fetched
            /\ summary_pc' = "returned"
       ELSE /\ summary_pc' = "loop"
            /\ UNCHANGED summary_result
    /\ UNCHANGED << summary_impl, fetched, summary, alert_index, store_calls,
                    last_call, paused_at, extraVars, turnVars, mgrVars >>

\* one iteration of the for loop (wazuh_client.py 203-212,
\* wazuh_mcp_server.py 197-206)
Summary_Count ==
    /\ summary_pc = "loop"
    /\ alert_index < Len(AlertsToCount)
    /\ LET level == LevelOf(AlertsToCount[alert_index + 1]) IN
       summary' = [summary EXCEPT ![SeverityOf(level)] = @ + 1]
    /\ alert_index' = alert_index + 1
    /\ UNCHANGED << summary_impl, fetched, summary_pc, summary_result, store_calls,
                    last_call, paused_at, extraVars, turnVars, mgrVars >>

\* the return statement: total_alerts is sum(summary.values()) in the
\* client (line 217) and len(alerts) in the MCP server (line 211)
Summary_Return ==
    /\ summary_pc = "loop"
    /\ alert_index = Len(AlertsToCount)
    /\ summary_result' =
          [success |-> TRUE, summary |-> summary,
           total_alerts |-> IF summary_impl = "client"
                            THEN SumValues(summary)
                            ELSE Len(AlertsToCount)]
    /\ summary_pc' = "returned"
    /\ UNCHANGED << summary_impl, fetched, summary, alert_index, store_calls,
                    last_call, paused_at, extraVars, turnVars, mgrVars >>

(***************************************************************************)
(* get_critical_alerts and the search it sends to the indexer.             *)
(***************************************************************************)
RECURSIVE Expand(_)
\* the alerts of the window, newest first
Expand(runs) ==
    IF runs = << >> THEN << >>
    ELSE [i \in 1..runs[1].count |-> runs[1].alert] \o Expand(Tail(runs))

\* the clause {"match": {"agent.name": agent_name}}, added `if agent_name`
MatchesScope(alert, scope) == scope = NoAgent \/ alert.agent = scope

FirstN(seq, n) == SubSeq(seq, 1, IF Len(seq) < n THEN Len(seq) ELSE n)

\* the hits of the search: the alerts of the window that match the scope,
\* sorted by timestamp descending, "size": limit of them
IndexerHits(window, limit, scope) ==
    FirstN(SelectSeq(Expand(window), LAMBDA al : MatchesScope(al, scope)), limit)

IsCritical(alert) == LevelOf(alert) >= CriticalLevel

\* no call of get_critical_alerts is modelled
CritIdle ==
    /\ crit_window = << >>
    /\ crit_scope = NoAgent
    /\ crit_pc = "idle"
    /\ alerts_result = FetchFailed
    /\ crit_result = [success |-> FALSE, error |-> "none"]

ExtraIdle == CritIdle /\ MsgIdle /\ PrefsInit /\ ChatIdle

\* get_critical_alerts is about to be called, for all agents or for win-007
CritInit ==
    /\ crit_window \in Windows
    /\ crit_scope \in { NoAgent, Win007 }
    /\ crit_pc = "start"
    /\ alerts_result = FetchFailed
    /\ crit_result = [success |-> FALSE, error |-> "none"]

CritFrame ==
    UNCHANGED << turnVars, mgrVars, sumVars, store_calls, last_call, paused_at,
                 msgVars, prefVars, chatVars >>

\* alerts_result = self.get_alerts_from_indexer(hours, limit=500, agent_name):
\* the request fails, or answers with the hits
Critical_Fetch ==
    /\ crit_pc = "start"
    /\ \E ok \in BOOLEAN :
         alerts_result' =
            IF ok THEN FetchedOk(IndexerHits(crit_window, FetchLimit, crit_scope))
                  ELSE FetchFailed
    /\ crit_pc' = "fetched"
    /\ UNCHANGED << crit_window, crit_scope, crit_result >>
    /\ CritFrame

\* lines 173-186: the early return, the filter and the envelope
Critical_Return ==
    /\ crit_pc = "fetched"
    /\ crit_result' =
          IF ~alerts_result.success THEN alerts_result
          ELSE LET critical_alerts == SelectSeq(alerts_result.alerts, IsCritical) IN
               [success |-> TRUE,
                total_critical |-> Len(critical_alerts),
                critical_alerts |-> FirstN(critical_alerts, DetailCap),
                agent |-> crit_scope]
    /\ crit_pc' = "returned"
    /\ UNCHANGED << crit_window, crit_scope, alerts_result >>
    /\ CritFrame

(***************************************************************************)
(* SOCAgent.run: pure parts.                                               *)
(***************************************************************************)
\* should_fetch_data (agent.py 274-278), of the lower-cased prompt
ShouldFetchData(pl) == ContainsAny(pl, FetchPhrases)

\* the test of line 284 on one whitespace-separated word
HasMarker(word) == ContainsAny(Lower(word), AgentMarkers)

\* the loop of lines 282-286: the first marked word, stripped of .,!?
ExtractAgentName(p) ==
    LET words == Split(p)
        marked == { i \in 1..Len(words) : HasMarker(words[i]) }
    IN  IF marked = {}
        THEN NoAgent
        ELSE LET first == CHOOSE i \in marked : \A j \in marked : i <= j
             IN  Strip(words[first], StripChars)

\* WazuhAPIClient.health_check: the envelope it returns, given whether
\* authenticate() succeeded and whether its own get_agents() succeeded
HealthCheck(auth_ok, agents_ok) ==
    IF ~auth_ok THEN [success |-> FALSE, error |-> "Authentication failed"]
    ELSE IF agents_ok THEN [success |-> TRUE, error |-> "none"]
    ELSE [success |-> FALSE, error |-> "Failed to get agents"]

\* one entry of tool_results: the label, and the envelope the fetch returned
\* (its success flag); scope is the agent_name argument the fetch was given
ToolResult(label, ok, scope) ==
    [label |-> label, success |-> ok, scope |-> scope]

\* one entry of client_calls: the operation, its agent_name argument and the
\* success flag of the envelope it returned
ClientCall(op, scope, ok) == [op |-> op, scope |-> scope, success |-> ok]

\* the keyword tests of lines 299, 308, 312, 320, 324, of the lower-cased prompt
SeverityBucket(pl) == ContainsAny(pl, SeverityWords)
RecentBucket(pl) == ContainsAny(pl, RecentWords)
AgentBucket(pl) == ContainsAny(pl, AgentWords)
VulnBucket(pl) == ContainsAny(pl, VulnWords)
AuthBucket(pl) == ContainsAny(pl, AuthWords)

(***************************************************************************)
(* SOCAgent.run, step by step.  Each call on the monitoring client and on  *)
(* the model is one step; its outcome (the envelope's success flag, the    *)
(* model raising) is the environment's choice.                             *)
(***************************************************************************)
TurnInit ==
    /\ run_pc = "idle"
    /\ run_caller = "none"
    /\ prompt = <<>>
    /\ prompt_lower = <<>>
    /\ agent_name = NoAgent
    /\ tool_results = <<>>
    /\ client_calls = <<>>
    /\ llm_calls = 0
    /\ run_result = "none"

\* Run_Enter with line 280 reading `if self.wazuh_client:` (the gate dropped)
Run_Enter_NoGate(p, caller) ==
    /\ run_pc = "idle"
    /\ run_caller' = caller
    /\ prompt' = p
    /\ prompt_lower' = Lower(p)
    /\ tool_results' = <<>>
    /\ client_calls' = <<>>
    /\ llm_calls' = 0
    /\ run_result' = "none"
    /\ agent_name' = ExtractAgentName(p)
    /\ run_pc' = "health"

\* lines 267-289: run(p) is entered; the gate and the agent token
Run_Enter(p, caller) ==
    /\ run_pc = "idle"
    /\ run_caller' = caller
    /\ prompt' = p
    /\ prompt_lower' = Lower(p)
    /\ tool_results' = <<>>
    /\ client_calls' = <<>>
    /\ llm_calls' = 0
    /\ run_result' = "none"
    /\ IF ShouldFetchData(Lower(p))
       THEN /\ agent_name' = ExtractAgentName(p)
            /\ run_pc' = "health"
       ELSE /\ agent_name' = NoAgent
            /\ run_pc' = "respond"

\* Run_HealthCheck without the early return of lines 293-294
Run_HealthCheck_NoReturn ==
    /\ run_pc = "health"
    /\ \E auth_ok \in BOOLEAN, agents_ok \in BOOLEAN :
         LET health == HealthCheck(auth_ok, agents_ok) IN
         /\ client_calls' = Append(client_calls,
                                   ClientCall("health_check", NoAgent, health.success))
         /\ tool_results' = Append(tool_results,
                                   ToolResult("Health Check", health.success, NoAgent))
         /\ run_pc' = "severity"
    /\ UNCHANGED << run_caller, prompt, prompt_lower, agent_name, llm_calls, run_result, mgrVars, sideVars >>

\* lines 291-296
Run_HealthCheck ==
    /\ run_pc = "health"
    /\ \E auth_ok \in BOOLEAN, agents_ok \in BOOLEAN :
         LET health == HealthCheck(auth_ok, agents_ok) IN
         /\ client_calls' = Append(client_calls, ClientCall("health_check", NoAgent, health.success))
         /\ IF ~health.success
            THEN /\ run_result' = "cannot_connect"
                 /\ run_pc' = "returned"
                 /\ UNCHANGED tool_results
            ELSE /\ tool_results' = Append(tool_results,
                                          ToolResult("Health Check", TRUE, NoAgent))
                 /\ run_pc' = "severity"
                 /\ UNCHANGED run_result
    /\ UNCHANGED << run_caller, prompt, prompt_lower, agent_name, llm_calls, mgrVars, sideVars >>

\* a variant in which a fetch whose envelope reports failure is left out of
\* the context
Fetch_DroppingFailures(op, label, ok, next) ==
    /\ client_calls' = Append(client_calls, ClientCall(op, agent_name, ok))
    /\ tool_results' = IF ok
                       THEN Append(tool_results, ToolResult(label, ok, agent_name))
                       ELSE tool_results
    /\ run_pc' = next

\* a fetch made with the turn's agent_name: the call, and its labelled result
Fetch(op, label, ok, next) ==
    /\ client_calls' = Append(client_calls, ClientCall(op, agent_name, ok))
    /\ tool_results' = Append(tool_results, ToolResult(label, ok, agent_name))
    /\ run_pc' = next

Skip(next) ==
    /\ run_pc' = next
    /\ UNCHANGED << client_calls, tool_results >>

\* Run_CriticalAlerts with line 301 not passing agent_name (a global query)
Run_CriticalAlerts_Unscoped ==
    /\ run_pc = "severity"
    /\ \/ /\ SeverityBucket(prompt_lower)
          /\ \E ok \in BOOLEAN :
               /\ client_calls' = Append(client_calls,
                                         ClientCall("get_critical_alerts", NoAgent, ok))
               /\ tool_results' = Append(tool_results,
                                         ToolResult("Critical Alerts", ok, NoAgent))
               /\ run_pc' = "summary"
       \/ /\ ~SeverityBucket(prompt_lower)
          /\ Skip("recent")
    /\ UNCHANGED << run_caller, prompt, prompt_lower, agent_name, llm_calls, run_result, mgrVars, sideVars >>

\* lines 299-302
Run_CriticalAlerts ==
    /\ run_pc = "severity"
    /\ \/ /\ SeverityBucket(prompt_lower)
          /\ \E ok \in BOOLEAN :
               Fetch("get_critical_alerts", "Critical Alerts", ok, "summary")
       \/ /\ ~SeverityBucket(prompt_lower)
          /\ Skip("recent")
    /\ UNCHANGED << run_caller, prompt, prompt_lower, agent_name, llm_calls, run_result, mgrVars, sideVars >>

\* lines 304-306
Run_AlertSummary ==
    /\ run_pc = "summary"
    /\ \E ok \in BOOLEAN :
         Fetch("get_alert_summary", "Alert Summary", ok, "recent")
    /\ UNCHANGED << run_caller, prompt, prompt_lower, agent_name, llm_calls, run_result, mgrVars, sideVars >>

\* a variant of lines 308-310 that reads `elif`: the recent-alerts bucket is
\* tested only when the severity bucket did not fire
Run_RecentAlerts_Elif ==
    /\ run_pc = "recent"
    /\ \/ /\ RecentBucket(prompt_lower) /\ ~SeverityBucket(prompt_lower)
          /\ \E ok \in BOOLEAN :
               Fetch("get_alerts_from_indexer", "Recent Alerts", ok, "agents")
       \/ /\ ~(RecentBucket(prompt_lower) /\ ~SeverityBucket(prompt_lower))
          /\ Skip("agents")
    /\ UNCHANGED << run_caller, prompt, prompt_lower, agent_name, llm_calls, run_result, mgrVars, sideVars >>

\* lines 308-310
Run_RecentAlerts ==
    /\ run_pc = "recent"
    /\ \/ /\ RecentBucket(prompt_lower)
          /\ \E ok \in BOOLEAN :
               Fetch("get_alerts_from_indexer", "Recent Alerts", ok, "agents")
       \/ /\ ~RecentBucket(prompt_lower)
          /\ Skip("agents")
    /\ UNCHANGED << run_caller, prompt, prompt_lower, agent_name, llm_calls, run_result, mgrVars, sideVars >>

\* lines 312-318
Run_Agents ==
    /\ run_pc = "agents"
    /\ \/ /\ AgentBucket(prompt_lower)
          /\ \E ok \in BOOLEAN :
               IF agent_name # NoAgent
               THEN Fetch("get_agent_by_name", "Agent", ok, "vulns")
               ELSE Fetch("get_agents", "All Agents", ok, "vulns")
       \/ /\ ~AgentBucket(prompt_lower)
          /\ Skip("vulns")
    /\ UNCHANGED << run_caller, prompt, prompt_lower, agent_name, llm_calls, run_result, mgrVars, sideVars >>

\* lines 320-322
Run_Vulnerabilities ==
    /\ run_pc = "vulns"
    /\ \/ /\ VulnBucket(prompt_lower)
          /\ \E ok \in BOOLEAN :
               Fetch("get_vulnerabilities", "Vulnerabilities", ok, "auth")
       \/ /\ ~VulnBucket(prompt_lower)
          /\ Skip("auth")
    /\ UNCHANGED << run_caller, prompt, prompt_lower, agent_name, llm_calls, run_result, mgrVars, sideVars >>

\* lines 324-326
Run_FailedAuth ==
    /\ run_pc = "auth"
    /\ \/ /\ AuthBucket(prompt_lower)
          /\ \E ok \in BOOLEAN :
               Fetch("get_failed_auth", "Failed Authentication", ok, "fallback")
       \/ /\ ~AuthBucket(prompt_lower)
          /\ Skip("fallback")
    /\ UNCHANGED << run_caller, prompt, prompt_lower, agent_name, llm_calls, run_result, mgrVars, sideVars >>

\* a variant of lines 328-336 whose test is len(tool_results) == 0
Run_FallbackSummary_Never ==
    /\ run_pc = "fallback"
    /\ \/ /\ Len(tool_results) = 0
          /\ \E ok \in BOOLEAN :
               Fetch("get_alert_summary", "Alert Summary", ok,
                     IF agent_name # NoAgent THEN "fallback_agent" ELSE "analyze")
       \/ /\ Len(tool_results) # 0
          /\ Skip("analyze")
    /\ UNCHANGED << run_caller, prompt, prompt_lower, agent_name, llm_calls, run_result, mgrVars, sideVars >>

\* lines 328-332
Run_FallbackSummary ==
    /\ run_pc = "fallback"
    /\ \/ /\ Len(tool_results) = 1
          /\ \E ok \in BOOLEAN :
               Fetch("get_alert_summary", "Alert Summary", ok,
                     IF agent_name # NoAgent THEN "fallback_agent" ELSE "analyze")
       \/ /\ Len(tool_results) # 1
          /\ Skip("analyze")
    /\ UNCHANGED << run_caller, prompt, prompt_lower, agent_name, llm_calls, run_result, mgrVars, sideVars >>

\* lines 334-336
Run_FallbackAgent ==
    /\ run_pc = "fallback_agent"
    /\ \E ok \in BOOLEAN :
         Fetch("get_agent_by_name", "Agent", ok, "analyze")
    /\ UNCHANGED << run_caller, prompt, prompt_lower, agent_name, llm_calls, run_result, mgrVars, sideVars >>

\* a variant of lines 358-363 that invokes the model again when it raised
Run_Analyze_Retrying ==
    /\ run_pc = "analyze"
    /\ \E raises \in BOOLEAN, raises_again \in BOOLEAN :
         /\ llm_calls' = IF raises THEN llm_calls + 2 ELSE llm_calls + 1
         /\ run_result' = IF raises /\ raises_again THEN "error_analyzing" ELSE "analysis"
    /\ run_pc' = "returned"
    /\ UNCHANGED << run_caller, prompt, prompt_lower, agent_name, tool_results, client_calls, mgrVars, sideVars >>

\* lines 338-363: the model is handed the assembled context
Run_Analyze ==
    /\ run_pc = "analyze"
    /\ llm_calls' = llm_calls + 1
    /\ \E raises \in BOOLEAN :
         run_result' = IF raises THEN "error_analyzing" ELSE "analysis"
    /\ run_pc' = "returned"
    /\ UNCHANGED << run_caller, prompt, prompt_lower, agent_name, tool_results, client_calls, mgrVars, sideVars >>

\* lines 365-391: no data fetch, the model is handed the conversation
Run_Respond ==
    /\ run_pc = "respond"
    /\ llm_calls' = llm_calls + 1
    /\ \E raises \in BOOLEAN :
         run_result' = IF raises THEN "error" ELSE "response"
    /\ run_pc' = "returned"
    /\ UNCHANGED << run_caller, prompt, prompt_lower, agent_name, tool_results, client_calls, mgrVars, sideVars >>

RunStep ==
    \/ Run_HealthCheck
    \/ Run_CriticalAlerts
    \/ Run_AlertSummary
    \/ Run_RecentAlerts
    \/ Run_Agents
    \/ Run_Vulnerabilities
    \/ Run_FailedAuth
    \/ Run_FallbackSummary
    \/ Run_FallbackAgent
    \/ Run_Analyze
    \/ Run_Respond

\* the caller has taken run's result; the agent is ready for the next call
Run_Leave ==
    /\ run_pc' = "idle"
    /\ run_caller' = "none"
    /\ prompt' = <<>>
    /\ prompt_lower' = <<>>
    /\ agent_name' = NoAgent
    /\ tool_results' = <<>>
    /\ client_calls' = <<>>
    /\ llm_calls' = 0
    /\ run_result' = "none"

\* a user submits a prompt in the chat tab (chat.py 216-223)
ChatTurn ==
    /\ run_pc = "idle"
    /\ \E p \in UserPrompts : Run_Enter(p, "chat")
    /\ UNCHANGED << mgrVars, sideVars >>

\* the chat tab displays the response
ChatDone ==
    /\ run_pc = "returned"
    /\ run_caller = "chat"
    /\ Run_Leave
    /\ UNCHANGED << mgrVars, sideVars >>

vars == << turnVars, mgrVars, sideVars >>

(***************************************************************************)
(* ProactiveAgentManager: the public operations.  In Spec they are called  *)
(* one at a time, so a call is one step: a firing only shares the record   *)
(* store with a call, and a call executes a single statement on it.        *)
(***************************************************************************)
NoError == [op |-> "none", name |-> "none"]

\* the exception left the operation op called for name
Raised(op, name) == [op |-> op, name |-> name]

\* dict operations on _jobs
DictSet(d, k, v) == [x \in DOMAIN d \cup {k} |-> IF x = k THEN v ELSE d[x]]

DictDel(d, k) == [x \in DOMAIN d \ {k} |-> d[x]]

EmptyDict == [x \in {} |-> TRUE]

MgrInit ==
    /\ jobs = EmptyDict
    /\ scheduler = NewScheduler
    /\ instances = [n \in Names |-> 0]
    /\ firings = {}
    /\ firings_begun = 0
    /\ call_pc = "idle"
    /\ last_error = NoError
    /\ store_flaky \in BOOLEAN
    /\ db_agents = <<>>
    /\ db_messages = <<>>
    /\ db_tools_log = <<>>
    /\ threads = [t \in Threads |-> IdleThread]

\* a variant of add_proactive_agent that keeps the old timer: lines 115-116
\* left out and add_job without replace_existing
AddProactiveAgent_Stacking(name, minutes, p, target, retries) ==
    /\ call_pc = "idle"
    /\ UNCHANGED << store_flaky, instances, firings, firings_begun, call_pc,
                    db_messages, db_tools_log, threads, last_error >>
    /\ db_agents' = SaveProactiveAgent(db_agents, name, p, minutes)
    /\ LET job == NewJob(name, minutes, p, target, retries)
           s1 == Started(scheduler)
       IN  /\ scheduler' = WithHeld(s1, Append(Held(s1), job))
           /\ jobs' = DictSet(jobs, name, job)

\* add_proactive_agent (lines 99-129)
AddProactiveAgent(name, minutes, p, target, retries) ==
    /\ call_pc = "idle"
    /\ UNCHANGED << store_flaky, instances, firings, firings_begun, call_pc,
                    db_messages, db_tools_log, threads >>
    /\ \E store_ok \in StoreOutcomes :
         IF ~store_ok
         THEN \* line 112 raises
              /\ last_error' = Raised("add", name)
              /\ UNCHANGED << jobs, scheduler, db_agents >>
         ELSE /\ db_agents' = SaveProactiveAgent(db_agents, name, p, minutes)
              /\ IF name \in DOMAIN jobs /\ ~HasJob(Started(scheduler), name)
                 THEN \* line 116 raises JobLookupError
                      /\ scheduler' = Started(scheduler)
                      /\ last_error' = Raised("add", name)
                      /\ UNCHANGED jobs
                 ELSE LET s1 == IF name \in DOMAIN jobs
                                THEN RemoveJob(Started(scheduler), name)
                                ELSE Started(scheduler)
                          job == NewJob(name, minutes, p, target, retries)
                      IN  /\ scheduler' = AddJob(s1, job)
                          /\ jobs' = DictSet(jobs, name, job)
                          /\ UNCHANGED last_error

\* a variant of remove_proactive_agent without the test of line 133:
\* remove_job raises JobLookupError for a name the scheduler does not hold
RemoveProactiveAgent_Unguarded(name) ==
    /\ call_pc = "idle"
    /\ UNCHANGED << store_flaky, instances, firings, firings_begun, call_pc,
                    db_messages, db_tools_log, threads >>
    /\ IF ~HasJob(Started(scheduler), name)
       THEN /\ scheduler' = Started(scheduler)
            /\ last_error' = Raised("remove", name)
            /\ UNCHANGED << jobs, db_agents >>
       ELSE /\ scheduler' = RemoveJob(Started(scheduler), name)
            /\ jobs' = DictDel(jobs, name)
            /\ db_agents' = DeleteProactiveAgent(db_agents, name)
            /\ UNCHANGED last_error

\* a variant of remove_proactive_agent that also stops the executions of the
\* job that are in progress
RemoveProactiveAgent_Aborting(name) ==
    /\ call_pc = "idle"
    /\ UNCHANGED << store_flaky, firings_begun, call_pc, db_messages,
                    db_tools_log, threads, last_error >>
    /\ firings' = { f \in firings : f.name # name }
    /\ instances' = [instances EXCEPT ![name] = 0]
    /\ IF name \in DOMAIN jobs /\ HasJob(Started(scheduler), name)
       THEN /\ scheduler' = RemoveJob(Started(scheduler), name)
            /\ jobs' = DictDel(jobs, name)
       ELSE UNCHANGED << scheduler, jobs >>
    /\ db_agents' = DeleteProactiveAgent(db_agents, name)

\* a variant of remove_proactive_agent without line 139: the persisted
\* config is left in the table
RemoveProactiveAgent_KeepingConfig(name) ==
    /\ call_pc = "idle"
    /\ UNCHANGED << store_flaky, instances, firings, firings_begun, call_pc,
                    db_messages, db_tools_log, threads, db_agents, last_error >>
    /\ IF name \in DOMAIN jobs /\ HasJob(Started(scheduler), name)
       THEN /\ scheduler' = RemoveJob(Started(scheduler), name)
            /\ jobs' = DictDel(jobs, name)
       ELSE UNCHANGED << scheduler, jobs >>

\* remove_proactive_agent (lines 131-139)
RemoveProactiveAgent(name) ==
    /\ call_pc = "idle"
    /\ UNCHANGED << store_flaky, instances, firings, firings_begun, call_pc,
                    db_messages, db_tools_log, threads >>
    /\ IF name \in DOMAIN jobs /\ ~HasJob(Started(scheduler), name)
       THEN \* line 134 raises JobLookupError
            /\ scheduler' = Started(scheduler)
            /\ last_error' = Raised("remove", name)
            /\ UNCHANGED << jobs, db_agents >>
       ELSE /\ IF name \in DOMAIN jobs
               THEN /\ scheduler' = RemoveJob(Started(scheduler), name)
                    /\ jobs' = DictDel(jobs, name)
               ELSE UNCHANGED << scheduler, jobs >>
            /\ \E store_ok \in StoreOutcomes :
                 IF store_ok
                 THEN /\ db_agents' = DeleteProactiveAgent(db_agents, name)
                      /\ UNCHANGED last_error
                 ELSE \* line 139 raises
                      /\ last_error' = Raised("remove", name)
                      /\ UNCHANGED db_agents

\* pause_proactive_agent (lines 141-145) and resume_proactive_agent (147-151)
PauseOrResume(op, name, b) ==
    /\ call_pc = "idle"
    /\ UNCHANGED << store_flaky, jobs, instances, firings, firings_begun, call_pc,
                    db_agents, db_messages, db_tools_log, threads >>
    /\ IF name \in DOMAIN jobs
       THEN IF HasJob(Started(scheduler), name)
            THEN /\ scheduler' = SetPaused(Started(scheduler), name, b)
                 /\ UNCHANGED last_error
            ELSE \* pause_job / resume_job raises JobLookupError
                 /\ scheduler' = Started(scheduler)
                 /\ last_error' = Raised(op, name)
       ELSE UNCHANGED << scheduler, last_error >>

\* a variant of pause_proactive_agent whose pause_job leaves the timer running
PauseProactiveAgent_Ignored(name) == PauseOrResume("pause", name, FALSE)

PauseProactiveAgent(name) == PauseOrResume("pause", name, TRUE)

ResumeProactiveAgent(name) == PauseOrResume("resume", name, FALSE)

\* what get_agent_status(name) returns (lines 153-168), when it does not raise
AgentStatus(name) ==
    IF name \in DOMAIN jobs /\ HasJob(Started(scheduler), name)
    THEN LET js == Held(Started(scheduler))
             job == js[FirstWithId(js, name)]
         IN  [name |-> name,
              next_run |-> IF job.paused THEN "none" ELSE "time",
              active |-> TRUE]
    ELSE [name |-> name, next_run |-> "none", active |-> FALSE]

\* get_agent_status raises: a job added to a scheduler that was shut down is
\* pending and has no next_run_time attribute (line 160)
StatusRaises(name) ==
    /\ name \in DOMAIN jobs
    /\ scheduler.state = "stopped"
    /\ HasJob(scheduler, name)

\* get_agent_status (lines 153-168)
GetAgentStatus(name) ==
    /\ call_pc = "idle"
    /\ UNCHANGED << store_flaky, jobs, instances, firings, firings_begun, call_pc,
                    db_agents, db_messages, db_tools_log, threads >>
    /\ scheduler' = IF name \in DOMAIN jobs THEN Started(scheduler) ELSE scheduler
    /\ last_error' = IF StatusRaises(name) THEN Raised("status", name) ELSE last_error

\* list_active_agents (lines 170-175)
ListActiveAgents ==
    /\ call_pc = "idle"
    /\ UNCHANGED << store_flaky, jobs, instances, firings, firings_begun, call_pc,
                    db_agents, db_messages, db_tools_log, threads >>
    /\ scheduler' = IF DOMAIN jobs # {} THEN Started(scheduler) ELSE scheduler
    /\ last_error' = IF \E n \in DOMAIN jobs : StatusRaises(n)
                     THEN Raised("list", "none")
                     ELSE last_error

\* shutdown (lines 177-182): BackgroundScheduler.shutdown() raises
\* SchedulerNotRunningError on a scheduler that is already stopped, and
\* otherwise stops the timers, empties its (memory) job store and waits for
\* the running jobs
Shutdown_Begin ==
    /\ call_pc = "idle"
    /\ UNCHANGED << store_flaky, jobs, instances, firings, firings_begun,
                    db_agents, db_messages, db_tools_log, threads >>
    /\ CASE scheduler.state = "none" ->
              UNCHANGED << scheduler, call_pc, last_error >>
         [] scheduler.state = "stopped" ->
              /\ last_error' = Raised("shutdown", "none")
              /\ UNCHANGED << scheduler, call_pc >>
         [] scheduler.state = "running" ->
              /\ scheduler' = [scheduler EXCEPT !.state = "stopped", !.jobs = <<>>]
              /\ call_pc' = "in_shutdown"
              /\ UNCHANGED last_error

\* the running jobs have finished: line 181 clears _jobs and shutdown returns
Shutdown_End ==
    /\ call_pc = "in_shutdown"
    /\ firings = {}
    /\ jobs' = EmptyDict
    /\ call_pc' = "idle"
    /\ UNCHANGED << store_flaky, scheduler, instances, firings, firings_begun,
                    last_error, db_agents, db_messages, db_tools_log, threads >>

(***************************************************************************)
(* A firing: the scheduler submits run_async_job to its executor, which    *)
(* runs _execute_agent_task to completion in a worker thread.              *)
(***************************************************************************)
SetFiring(f, g) == (firings \ {f}) \cup {g}

\* a variant of the executor that never skips a run
TimerFire_Unlimited ==
    /\ firings_begun < MaxFirings
    /\ \E i \in LiveTimers(scheduler) :
         LET job == scheduler.jobs[i] IN
         /\ instances' = [instances EXCEPT ![job.id] = @ + 1]
         /\ firings' = firings \cup
               { [fid |-> firings_begun + 1, name |-> job.id, prompt |-> job.prompt,
                  target |-> job.target, retries |-> job.retries,
                  attempt |-> 0, pc |-> "invoke", response |-> "none",
                  invocations |-> 0, store_faults |-> 0] }
    /\ firings_begun' = firings_begun + 1
    /\ UNCHANGED << store_flaky, jobs, scheduler, call_pc, last_error,
                    db_agents, db_messages, db_tools_log, threads >>

\* the scheduler's timer for a job is due: the executor runs the job unless
\* max_instances instances of that job id are running (the run is skipped)
TimerFire ==
    /\ firings_begun < MaxFirings
    /\ \E i \in LiveTimers(scheduler) :
         LET job == scheduler.jobs[i] IN
         /\ instances[job.id] < MaxInstances
         /\ instances' = [instances EXCEPT ![job.id] = @ + 1]
         /\ firings' = firings \cup
               { [fid |-> firings_begun + 1, name |-> job.id, prompt |-> job.prompt,
                  target |-> job.target, retries |-> job.retries,
                  attempt |-> 0, pc |-> "invoke", response |-> "none",
                  invocations |-> 0, store_faults |-> 0] }
    /\ firings_begun' = firings_begun + 1
    /\ UNCHANGED << store_flaky, jobs, scheduler, call_pc, last_error,
                    db_agents, db_messages, db_tools_log, threads >>

\* lines 37-46 with a target that is any object with a run method: run
\* returns a response or raises
Firing_Invoke(f) ==
    /\ f.pc = "invoke"
    /\ f.target = "stub"
    /\ \E raises \in BOOLEAN :
         firings' = SetFiring(f,
            IF raises
            THEN [f EXCEPT !.invocations = @ + 1, !.pc = "on_error"]
            ELSE [f EXCEPT !.invocations = @ + 1, !.pc = "save_message",
                           !.response = "response"])
    /\ UNCHANGED << store_flaky, jobs, scheduler, instances, firings_begun, call_pc,
                    last_error, db_agents, db_messages, db_tools_log, threads >>

\* lines 37-46 with the intent router as target: run is called with the
\* prefixed prompt (line 44) and no previous messages
Firing_CallAgent(f) ==
    /\ f.pc = "invoke"
    /\ f.target = "soc"
    /\ Run_Enter(ProactivePrefix \o f.prompt, "job")
    /\ firings' = SetFiring(f, [f EXCEPT !.invocations = @ + 1, !.pc = "awaiting"])
    /\ UNCHANGED << store_flaky, jobs, scheduler, instances, firings_begun, call_pc,
                    last_error, db_agents, db_messages, db_tools_log, threads >>

\* run has returned its string, which line 43 binds to response
Firing_AgentReturned(f) ==
    /\ f.pc = "awaiting"
    /\ run_pc = "returned"
    /\ run_caller = "job"
    /\ Run_Leave
    /\ firings' = SetFiring(f, [f EXCEPT !.response = run_result,
                                         !.pc = "save_message"])
    /\ UNCHANGED << store_flaky, jobs, scheduler, instances, firings_begun, call_pc,
                    last_error, db_agents, db_messages, db_tools_log, threads >>

\* an exception inside the try block of lines 38-57 is caught at line 59
StoreRaisedInTry(f) ==
    [f EXCEPT !.store_faults = @ + 1, !.pc = "on_error"]

\* lines 48-52
Firing_SaveMessage(f) ==
    /\ f.pc = "save_message"
    /\ \E store_ok \in StoreOutcomes :
         IF store_ok
         THEN /\ db_messages' = Append(db_messages, SuccessMessage(f))
              /\ firings' = SetFiring(f, [f EXCEPT !.pc = "save_tool_log"])
         ELSE /\ firings' = SetFiring(f, StoreRaisedInTry(f))
              /\ UNCHANGED db_messages
    /\ UNCHANGED << store_flaky, jobs, scheduler, instances, firings_begun, call_pc,
                    last_error, db_agents, db_tools_log, threads >>

\* line 53
Firing_SaveToolLog(f) ==
    /\ f.pc = "save_tool_log"
    /\ \E store_ok \in StoreOutcomes :
         IF store_ok
         THEN /\ db_tools_log' = Append(db_tools_log, ToolLog(f))
              /\ firings' = SetFiring(f, [f EXCEPT !.pc = "update_last_run"])
         ELSE /\ firings' = SetFiring(f, StoreRaisedInTry(f))
              /\ UNCHANGED db_tools_log
    /\ UNCHANGED << store_flaky, jobs, scheduler, instances, firings_begun, call_pc,
                    last_error, db_agents, db_messages, threads >>

\* a variant of lines 54-57 that leaves the loop without writing last_run
Firing_UpdateLastRun_Skipped(f) ==
    /\ f.pc = "update_last_run"
    /\ firings' = SetFiring(f, [f EXCEPT !.pc = "done"])
    /\ UNCHANGED << store_flaky, jobs, scheduler, instances, firings_begun, call_pc,
                    last_error, db_agents, db_messages, db_tools_log, threads >>

\* lines 54-57: last_run is set to now (the firing's id stands for the time)
\* and the loop is left
Firing_UpdateLastRun(f) ==
    /\ f.pc = "update_last_run"
    /\ \E store_ok \in StoreOutcomes :
         IF store_ok
         THEN /\ db_agents' = UpdateLastRun(db_agents, f.name, f.fid)
              /\ firings' = SetFiring(f, [f EXCEPT !.pc = "done"])
         ELSE /\ firings' = SetFiring(f, StoreRaisedInTry(f))
              /\ UNCHANGED db_agents
    /\ UNCHANGED << store_flaky, jobs, scheduler, instances, firings_begun, call_pc,
                    last_error, db_messages, db_tools_log, threads >>

\* a variant of lines 59-67 whose loop test is attempt < retries
Firing_OnError_OffByOne(f) ==
    /\ f.pc = "on_error"
    /\ db_messages' = Append(db_messages, ErrorMessage(f))
    /\ firings' = SetFiring(f,
          [f EXCEPT !.attempt = @ + 1,
                    !.pc = IF f.attempt + 1 < f.retries THEN "sleep" ELSE "done"])
    /\ UNCHANGED << store_flaky, jobs, scheduler, instances, firings_begun, call_pc,
                    last_error, db_agents, db_tools_log, threads >>

\* lines 59-67: the error message is saved, attempt is incremented, and the
\* loop goes on after a sleep while attempt <= retries; when save_message
\* raises here the exception leaves _execute_agent_task
Firing_OnError(f) ==
    /\ f.pc = "on_error"
    /\ \E store_ok \in StoreOutcomes :
         IF store_ok
         THEN /\ db_messages' = Append(db_messages, ErrorMessage(f))
              /\ firings' = SetFiring(f,
                    [f EXCEPT !.attempt = @ + 1,
                              !.pc = IF f.attempt + 1 <= f.retries
                                     THEN "sleep" ELSE "done"])
         ELSE /\ firings' = SetFiring(f, [f EXCEPT !.store_faults = @ + 1,
                                                   !.pc = "aborted"])
              /\ UNCHANGED db_messages
    /\ UNCHANGED << store_flaky, jobs, scheduler, instances, firings_begun, call_pc,
                    last_error, db_agents, db_tools_log, threads >>

\* line 67: asyncio.sleep(5) is over; line 37 is tested again
Firing_Sleep(f) ==
    /\ f.pc = "sleep"
    /\ firings' = SetFiring(f, [f EXCEPT !.pc = "invoke"])
    /\ UNCHANGED << store_flaky, jobs, scheduler, instances, firings_begun, call_pc,
                    last_error, db_agents, db_messages, db_tools_log, threads >>

\* a variant of the executor that pauses a job whose run found every attempt
\* failing
Firing_End_Disabling(f) ==
    /\ f.pc \in {"done", "aborted"}
    /\ firings' = firings \ {f}
    /\ instances' = [instances EXCEPT ![f.name] = @ - 1]
    /\ scheduler' = IF f.response = "none" /\ HasJob(scheduler, f.name)
                    THEN SetPaused(scheduler, f.name, TRUE)
                    ELSE scheduler
    /\ UNCHANGED << store_flaky, jobs, firings_begun, call_pc,
                    last_error, db_agents, db_messages, db_tools_log, threads >>

\* run_async_job returns (lines 71-95): the executor releases the instance
Firing_End(f) ==
    /\ f.pc \in {"done", "aborted"}
    /\ firings' = firings \ {f}
    /\ instances' = [instances EXCEPT ![f.name] = @ - 1]
    /\ UNCHANGED << store_flaky, jobs, scheduler, firings_begun, call_pc,
                    last_error, db_agents, db_messages, db_tools_log, threads >>

(***************************************************************************)
(* The caller of RegistrySpec: what it called last.                        *)
(***************************************************************************)
NoCall ==
    [op |-> "none", name |-> "none", had_handle |-> FALSE, configs |-> << >>]

CallerIdle == last_call = NoCall

\* the operation op is called with name: whether the name has a handle and
\* what the table of configs holds as the call finds them
Called(op, name) ==
    [op |-> op, name |-> name, had_handle |-> name \in DOMAIN jobs,
     configs |-> db_agents]

\* no pause call is awaiting its resume
NoPause ==
    [active |-> FALSE, cut |-> FALSE, handle |-> NoSchedule, config |-> << >>]

NeverPaused == paused_at = NoPause

\* pause(name) is called for a name with a handle: what it finds
PauseFinds(name) ==
    [active |-> TRUE, cut |-> FALSE, handle |-> jobs[name],
     config |-> SelectSeq(db_agents, LAMBDA r : r.name = name)]

(***************************************************************************)
(* One job with a target that raises or returns, followed through its life: *)
(* the operations are called one at a time while firings run in the        *)
(* scheduler's worker threads; the record store is sound or flaky.         *)
(***************************************************************************)
Init == MgrInit /\ TurnInit /\ SumIdle /\ StoreIdle /\ CallerIdle /\ NeverPaused /\ ExtraIdle /\ ~store_flaky

AddAmong(names, schedules, target) ==
    \E n \in names, sch \in schedules, r \in 0..MaxRetries :
        AddProactiveAgent(n, sch.minutes, sch.prompt, target, r)

Register == AddAmong(OneName, Schedules, "stub") /\ UNCHANGED << turnVars, sideVars >>

Unregister == \E n \in OneName : RemoveProactiveAgent(n) /\ UNCHANGED << turnVars, sideVars >>

Pause == \E n \in OneName : PauseProactiveAgent(n) /\ UNCHANGED << turnVars, sideVars >>

Resume == \E n \in OneName : ResumeProactiveAgent(n) /\ UNCHANGED << turnVars, sideVars >>

Status == \E n \in OneName : GetAgentStatus(n) /\ UNCHANGED << turnVars, sideVars >>

ListActive == ListActiveAgents /\ UNCHANGED << turnVars, sideVars >>

ShutdownCalled == Shutdown_Begin /\ UNCHANGED << turnVars, sideVars >>

ShutdownReturns == Shutdown_End /\ UNCHANGED << turnVars, sideVars >>

Fire == TimerFire /\ UNCHANGED << turnVars, sideVars >>

Invoke == \E f \in firings : Firing_Invoke(f) /\ UNCHANGED << turnVars, sideVars >>

SaveMessage == \E f \in firings : Firing_SaveMessage(f) /\ UNCHANGED << turnVars, sideVars >>

SaveToolLog == \E f \in firings : Firing_SaveToolLog(f) /\ UNCHANGED << turnVars, sideVars >>

LastRun == \E f \in firings : Firing_UpdateLastRun(f) /\ UNCHANGED << turnVars, sideVars >>

OnError == \E f \in firings : Firing_OnError(f) /\ UNCHANGED << turnVars, sideVars >>

Sleep == \E f \in firings : Firing_Sleep(f) /\ UNCHANGED << turnVars, sideVars >>

EndFiring == \E f \in firings : Firing_End(f) /\ UNCHANGED << turnVars, sideVars >>

FiringStep ==
    \/ Invoke
    \/ SaveMessage
    \/ SaveToolLog
    \/ LastRun
    \/ OnError
    \/ Sleep
    \/ EndFiring

Next ==
    \/ Register
    \/ Unregister
    \/ Pause
    \/ Resume
    \/ Status
    \/ ListActive
    \/ ShutdownCalled
    \/ ShutdownReturns
    \/ Fire
    \/ FiringStep

Spec == Init /\ [][Next]_vars

\* the same with a record store whose calls can raise
FaultInit == MgrInit /\ TurnInit /\ SumIdle /\ StoreIdle /\ CallerIdle /\ NeverPaused /\ ExtraIdle /\ store_flaky

FaultSpec == FaultInit /\ [][Next]_vars

(***************************************************************************)
(* Two jobs: registrations while firings are in progress.                  *)
(***************************************************************************)
\* the first job is registered with either schedule, the other job with one;
\* both with one retry, so that a firing sleeps between its attempts
PairRegistrations ==
    (OneName \X Schedules) \cup ((Names \ OneName) \X { SecondSchedule })

PairRegister ==
    /\ \E reg \in PairRegistrations :
          AddProactiveAgent(reg[1], reg[2].minutes, reg[2].prompt, "stub", 1)
    /\ UNCHANGED << turnVars, sideVars >>

PairNext ==
    \/ PairRegister
    \/ Fire
    \/ FiringStep

PairSpec == Init /\ [][PairNext]_vars

(***************************************************************************)
(* One job whose target is the intent router or a target that raises or    *)
(* returns.                                                                *)
(***************************************************************************)
JobRegister ==
    /\ \/ AddAmong(OneName, Schedules, "stub")
       \/ AddAmong(OneName, Schedules \cup { HostSchedule }, "soc")
    /\ UNCHANGED << turnVars, sideVars >>

CallAgent == \E f \in firings : Firing_CallAgent(f) /\ UNCHANGED sideVars

AgentReturned == \E f \in firings : Firing_AgentReturned(f) /\ UNCHANGED sideVars

JobNext ==
    \/ JobRegister
    \/ Fire
    \/ CallAgent
    \/ RunStep
    \/ AgentReturned
    \/ FiringStep

JobSpec == Init /\ [][JobNext]_vars

(***************************************************************************)
(* Two callers on one manager and one name: add_proactive_agent and        *)
(* remove_proactive_agent statement by statement.  The interpreter runs    *)
(* one thread at a time and the scheduler's own methods take its lock, so  *)
(* a step is one statement.                                                *)
(***************************************************************************)
SetThread(t, r) == [threads EXCEPT ![t] = r]

At(t, pc) == [threads[t] EXCEPT !.pc = pc]

Ended(t, how) == [threads[t] EXCEPT !.pc = "idle", !.ended = how]

\* the job add_job builds for the call thread t is in
ThreadJob(t) ==
    NewJob(threads[t].name, threads[t].sch.minutes, threads[t].sch.prompt,
           "stub", MaxRetries)

\* what no statement of the two operations touches
RaceFrame ==
    UNCHANGED << turnVars, sideVars, store_flaky, instances, firings,
                 firings_begun, call_pc, db_messages, db_tools_log >>

\* a caller enters add_proactive_agent
Thread_CallAdd(t) ==
    /\ threads[t].pc = "idle"
    /\ \E n \in OneName, sch \in Schedules :
         threads' = SetThread(t, [op |-> "add", pc |-> "add_save", name |-> n,
                                  sch |-> sch, ended |-> "none"])
    /\ UNCHANGED << jobs, scheduler, db_agents, last_error >>
    /\ RaceFrame

\* a caller enters remove_proactive_agent
Thread_CallRemove(t) ==
    /\ threads[t].pc = "idle"
    /\ \E n \in OneName :
         threads' = SetThread(t, [op |-> "remove", pc |-> "rm_test", name |-> n,
                                  sch |-> NoSchedule, ended |-> "none"])
    /\ UNCHANGED << jobs, scheduler, db_agents, last_error >>
    /\ RaceFrame

\* line 112
Add_SaveConfig(t) ==
    /\ threads[t].pc = "add_save"
    /\ db_agents' = SaveProactiveAgent(db_agents, threads[t].name,
                                       threads[t].sch.prompt, threads[t].sch.minutes)
    /\ threads' = SetThread(t, At(t, "add_test"))
    /\ UNCHANGED << jobs, scheduler, last_error >>
    /\ RaceFrame

\* line 115
Add_TestHandle(t) ==
    /\ threads[t].pc = "add_test"
    /\ threads' = SetThread(t, At(t, IF threads[t].name \in DOMAIN jobs
                                     THEN "add_remove" ELSE "add_job"))
    /\ UNCHANGED << jobs, scheduler, db_agents, last_error >>
    /\ RaceFrame

\* line 116: remove_job raises JobLookupError when the timer is gone
Add_RemoveJob(t) ==
    /\ threads[t].pc = "add_remove"
    /\ IF HasJob(Started(scheduler), threads[t].name)
       THEN /\ scheduler' = RemoveJob(Started(scheduler), threads[t].name)
            /\ threads' = SetThread(t, At(t, "add_job"))
            /\ UNCHANGED last_error
       ELSE /\ scheduler' = Started(scheduler)
            /\ threads' = SetThread(t, Ended(t, "raised"))
            /\ last_error' = Raised("add", threads[t].name)
    /\ UNCHANGED << jobs, db_agents >>
    /\ RaceFrame

\* lines 119-126
Add_AddJob(t) ==
    /\ threads[t].pc = "add_job"
    /\ scheduler' = AddJob(Started(scheduler), ThreadJob(t))
    /\ threads' = SetThread(t, At(t, "add_set"))
    /\ UNCHANGED << jobs, db_agents, last_error >>
    /\ RaceFrame

\* line 128
Add_SetHandle(t) ==
    /\ threads[t].pc = "add_set"
    /\ jobs' = DictSet(jobs, threads[t].name, ThreadJob(t))
    /\ threads' = SetThread(t, Ended(t, "returned"))
    /\ UNCHANGED << scheduler, db_agents, last_error >>
    /\ RaceFrame

\* line 133
Remove_TestHandle(t) ==
    /\ threads[t].pc = "rm_test"
    /\ threads' = SetThread(t, At(t, IF threads[t].name \in DOMAIN jobs
                                     THEN "rm_remove" ELSE "rm_delete"))
    /\ UNCHANGED << jobs, scheduler, db_agents, last_error >>
    /\ RaceFrame

\* line 134: remove_job raises JobLookupError when the timer is gone
Remove_RemoveJob(t) ==
    /\ threads[t].pc = "rm_remove"
    /\ IF HasJob(Started(scheduler), threads[t].name)
       THEN /\ scheduler' = RemoveJob(Started(scheduler), threads[t].name)
            /\ threads' = SetThread(t, At(t, "rm_del"))
            /\ UNCHANGED last_error
       ELSE /\ scheduler' = Started(scheduler)
            /\ threads' = SetThread(t, Ended(t, "raised"))
            /\ last_error' = Raised("remove", threads[t].name)
    /\ UNCHANGED << jobs, db_agents >>
    /\ RaceFrame

\* line 135: del raises KeyError when the handle is gone
Remove_DelHandle(t) ==
    /\ threads[t].pc = "rm_del"
    /\ IF threads[t].name \in DOMAIN jobs
       THEN /\ jobs' = DictDel(jobs, threads[t].name)
            /\ threads' = SetThread(t, At(t, "rm_delete"))
            /\ UNCHANGED last_error
       ELSE /\ threads' = SetThread(t, Ended(t, "raised"))
            /\ last_error' = Raised("remove", threads[t].name)
            /\ UNCHANGED jobs
    /\ UNCHANGED << scheduler, db_agents >>
    /\ RaceFrame

\* line 139
Remove_DeleteConfig(t) ==
    /\ threads[t].pc = "rm_delete"
    /\ db_agents' = DeleteProactiveAgent(db_agents, threads[t].name)
    /\ threads' = SetThread(t, Ended(t, "returned"))
    /\ UNCHANGED << jobs, scheduler, last_error >>
    /\ RaceFrame

CallAdd == \E t \in Threads : Thread_CallAdd(t)

CallRemove == \E t \in Threads : Thread_CallRemove(t)

AddStep ==
    \E t \in Threads :
        \/ Add_SaveConfig(t)
        \/ Add_TestHandle(t)
        \/ Add_RemoveJob(t)
        \/ Add_AddJob(t)
        \/ Add_SetHandle(t)

RemoveStep ==
    \E t \in Threads :
        \/ Remove_TestHandle(t)
        \/ Remove_RemoveJob(t)
        \/ Remove_DelHandle(t)
        \/ Remove_DeleteConfig(t)

RaceNext ==
    \/ CallAdd
    \/ CallRemove
    \/ AddStep
    \/ RemoveStep

RaceSpec == Init /\ [][RaceNext]_vars

(***************************************************************************)
(* The intent router alone: chat turns.                                    *)
(***************************************************************************)
TurnNext == ChatTurn \/ RunStep \/ ChatDone

TurnSpec == Init /\ [][TurnNext]_vars

(***************************************************************************)
(* Properties of the intent router (checked under TurnSpec).               *)
(***************************************************************************)
\* the secondary fetch operations of the monitoring client
SecondaryOps ==
    { "get_critical_alerts", "get_alert_summary", "get_alerts_from_indexer",
      "get_agent_by_name", "get_agents", "get_vulnerabilities", "get_failed_auth" }

HealthFailed ==
    \E j \in 1..Len(client_calls) :
        client_calls[j].op = "health_check" /\ ~client_calls[j].success

NoSecondaryFetch ==
    \A i \in 1..Len(client_calls) : client_calls[i].op \notin SecondaryOps

\* C8: a secondary fetch is invoked only after a health_check of the same turn
\* that reported success; once health_check has reported failure the turn has
\* returned the "Cannot connect" string and has invoked neither a secondary
\* fetch nor the language model.
C8_HealthProbeGuardsFetches ==
    /\ \A i \in 1..Len(client_calls) :
          client_calls[i].op \in SecondaryOps =>
             \E j \in 1..(i - 1) :
                 client_calls[j].op = "health_check" /\ client_calls[j].success
    /\ HealthFailed =>
          /\ run_pc = "returned"
          /\ run_result = "cannot_connect"
          /\ NoSecondaryFetch
          /\ llm_calls = 0

\* a fetch-triggering prompt with a severity keyword met a failing probe
C8_Witness ==
    /\ run_pc = "returned"
    /\ HealthFailed
    /\ SeverityBucket(prompt_lower)

\* C9: a turn whose lower-cased prompt contains no fetch-triggering phrase
\* invokes no operation of the monitoring client, and has invoked the language
\* model exactly once when it returns (and not before its respond step).
C9_NoPhraseNoClientCall ==
    (run_pc # "idle" /\ ~ContainsAny(Lower(prompt), FetchPhrases)) =>
        /\ client_calls = <<>>
        /\ llm_calls = IF run_pc = "returned" THEN 1 ELSE 0
        /\ run_pc = "returned" => run_result \in {"response", "error"}

\* a prompt with bucket keywords and an agent token, but no fetch phrase, returned
C9_Witness ==
    /\ run_pc = "returned"
    /\ ~ContainsAny(Lower(prompt), FetchPhrases)
    /\ Contains(prompt, Critical)
    /\ Contains(prompt, Win007)
    /\ llm_calls = 1

\* the critical-alerts results of the assembled context
CriticalResults ==
    { i \in 1..Len(tool_results) : tool_results[i].label = "Critical Alerts" }

\* the context is complete: the turn is about to invoke, or has invoked, the model
ContextAssembled ==
    \/ run_pc = "analyze"
    \/ run_pc = "returned" /\ run_result \in {"analysis", "error_analyzing"}

\* some whitespace-separated token of the prompt is win-007
MentionsWin007 ==
    \E i \in 1..Len(Split(prompt)) : Split(prompt)[i] = Win007

\* the first token holding a marker (win-, srv-, agent; any case) is win-007
\* once leading and trailing . , ! ? are stripped
FirstMarkedTokenIsWin007 ==
    LET words == Split(prompt) IN
    \E i \in 1..Len(words) :
        /\ Strip(words[i], StripChars) = Win007
        /\ \A j \in 1..(i - 1) : ~ContainsAny(Lower(words[j]), AgentMarkers)

ScopedToWin007Only ==
    /\ \E i \in CriticalResults : tool_results[i].scope = Win007
    /\ \A i \in CriticalResults : tool_results[i].scope = Win007

\* C10 as stated: every turn whose prompt contains "critical" and mentions the
\* token win-007 ends with a context holding a critical-alerts result scoped to
\* win-007 and none scoped otherwise.
C10_AsStated ==
    (run_pc = "returned" /\ Contains(prompt, Critical) /\ MentionsWin007) =>
        ScopedToWin007Only

\* C10, amended: when the prompt passes the fetch gate, the health probe
\* succeeds, the lower-cased prompt contains "critical" and the first marked
\* token is win-007, the assembled context holds exactly one critical-alerts
\* result, fetched with agent_name = win-007.
C10_ScopedCriticalAlerts ==
    ( /\ ContextAssembled
      /\ ContainsAny(Lower(prompt), FetchPhrases)
      /\ Contains(Lower(prompt), Critical)
      /\ FirstMarkedTokenIsWin007 ) =>
        /\ ScopedToWin007Only
        /\ Cardinality(CriticalResults) = 1

\* such a turn has invoked the model with its context
C10_Witness ==
    /\ run_pc = "returned"
    /\ run_result = "analysis"
    /\ ContainsAny(Lower(prompt), FetchPhrases)
    /\ Contains(Lower(prompt), Critical)
    /\ FirstMarkedTokenIsWin007
    /\ ScopedToWin007Only

(***************************************************************************)
(* Properties of the assembled context (checked under TurnSpec).           *)
(***************************************************************************)
\* a keyword bucket of lines 299-326 fires on the prompt
SomeBucketFires(pl) ==
    \/ SeverityBucket(pl)
    \/ RecentBucket(pl)
    \/ AgentBucket(pl)
    \/ VulnBucket(pl)
    \/ AuthBucket(pl)

\* the labelled results besides the health check
BesidesHealth ==
    { i \in 1..Len(tool_results) : tool_results[i].label # "Health Check" }

\* the context is the health check, the alert summary and, with a token,
\* the agent's record, each fetched with the token
DefaultContext(token) ==
    /\ Len(tool_results) = IF token = NoAgent THEN 2 ELSE 3
    /\ tool_results[2].label = "Alert Summary"
    /\ tool_results[2].scope = token
    /\ \E i \in 1..Len(client_calls) :
          client_calls[i].op = "get_alert_summary" /\ client_calls[i].scope = token
    /\ token # NoAgent =>
          /\ tool_results[3].label = "Agent"
          /\ tool_results[3].scope = token
          /\ \E i \in 1..Len(client_calls) :
                client_calls[i].op = "get_agent_by_name" /\ client_calls[i].scope = token

\* C18: in every turn whose prompt passes the fetch gate and whose health
\* probe succeeds, the assembled context holds at least one labelled result
\* besides the health check: when no keyword bucket fired, the alert summary
\* (scoped to the extracted agent token, if any) and, if a token was
\* extracted, that agent's record
C18_ContextBeyondHealth ==
    ContextAssembled =>
        /\ tool_results[1].label = "Health Check"
        /\ BesidesHealth # {}
        /\ ~SomeBucketFires(Lower(prompt)) => DefaultContext(ExtractAgentName(prompt))

\* a prompt with a host token and no bucket keyword: the model was handed the
\* health check, the host's alert summary and the host's record
C18_Witness ==
    /\ run_pc = "returned"
    /\ run_result = "analysis"
    /\ ~SomeBucketFires(Lower(prompt))
    /\ FirstMarkedTokenIsWin007
    /\ Len(tool_results) = 3
    /\ tool_results[2].scope = Win007
    /\ tool_results[3].label = "Agent"

\* the label under which the result of an operation enters the context
LabelOf(op) ==
    CASE op = "health_check" -> "Health Check"
      [] op = "get_critical_alerts" -> "Critical Alerts"
      [] op = "get_alert_summary" -> "Alert Summary"
      [] op = "get_alerts_from_indexer" -> "Recent Alerts"
      [] op = "get_agent_by_name" -> "Agent"
      [] op = "get_agents" -> "All Agents"
      [] op = "get_vulnerabilities" -> "Vulnerabilities"
      [] op = "get_failed_auth" -> "Failed Authentication"

\* the operations the keyword buckets of the prompt ask for
BucketOps(pl, token) ==
    (IF SeverityBucket(pl) THEN { "get_critical_alerts", "get_alert_summary" } ELSE {})
    \cup (IF RecentBucket(pl) THEN { "get_alerts_from_indexer" } ELSE {})
    \cup (IF AgentBucket(pl)
          THEN IF token # NoAgent THEN { "get_agent_by_name" } ELSE { "get_agents" }
          ELSE {})
    \cup (IF VulnBucket(pl) THEN { "get_vulnerabilities" } ELSE {})
    \cup (IF AuthBucket(pl) THEN { "get_failed_auth" } ELSE {})

\* the operations the turn has invoked
OpsInvoked == { client_calls[i].op : i \in 1..Len(client_calls) }

\* a secondary fetch of the turn returned a failure envelope
SomeFetchFailed ==
    \E i \in 1..Len(client_calls) :
        client_calls[i].op \in SecondaryOps /\ ~client_calls[i].success

\* every envelope a fetch returned, failing or not, is in the context under
\* the label of that fetch, in the order of the calls
EnvelopesInContext ==
    ~HealthFailed =>
        /\ Len(tool_results) = Len(client_calls)
        /\ \A i \in 1..Len(client_calls) :
              /\ tool_results[i].label = LabelOf(client_calls[i].op)
              /\ tool_results[i].success = client_calls[i].success
              /\ tool_results[i].scope = client_calls[i].scope

\* C19: a failure of a secondary fetch never aborts the turn: when a
\* sub-fetch returns a {success: false, error} envelope the turn goes on, the
\* buckets of the prompt are all fetched, the failing envelope is in the
\* assembled context under that fetch's label, and the language model is
\* invoked, once, with that context
C19_FetchFailureDoesNotAbort ==
    /\ EnvelopesInContext
    /\ (SomeFetchFailed /\ run_pc # "returned") => ENABLED RunStep
    /\ (SomeFetchFailed /\ ContextAssembled) =>
          BucketOps(Lower(prompt), ExtractAgentName(prompt)) \subseteq OpsInvoked
    /\ (SomeFetchFailed /\ run_pc = "returned") =>
          /\ llm_calls = 1
          /\ run_result \in { "analysis", "error_analyzing" }

\* the first secondary fetch of a turn failed, a later bucket was fetched all
\* the same, and the model was invoked with both envelopes in the context
C19_Witness ==
    /\ run_pc = "returned"
    /\ run_result = "analysis"
    /\ Len(tool_results) >= 3
    /\ ~tool_results[2].success
    /\ tool_results[Len(tool_results)].success
    /\ tool_results[2].label # tool_results[Len(tool_results)].label
    /\ llm_calls = 1

\* the formatted error strings run returns when the model invocation raised
ModelErrors == { "error_analyzing", "error" }

\* C20: within one turn the language model is invoked at most once, and
\* exactly once unless the health probe failed; when the invocation raises
\* the turn returns a formatted error string without invoking the model a
\* second time
C20_ModelInvokedOnce ==
    /\ llm_calls <= 1
    /\ run_pc = "returned" => llm_calls = IF HealthFailed THEN 0 ELSE 1
    /\ run_result \in ModelErrors => run_pc = "returned" /\ llm_calls = 1
    /\ (run_pc = "returned" /\ ~HealthFailed) =>
          run_result \in ModelErrors \cup { "analysis", "response" }

\* the model raised on the assembled context of a turn that fetched data
C20_Witness ==
    /\ run_pc = "returned"
    /\ run_result = "error_analyzing"
    /\ llm_calls = 1
    /\ Len(tool_results) >= 2

\* how many times the turn has invoked an operation
TimesInvoked(op) ==
    Cardinality({ i \in 1..Len(client_calls) : client_calls[i].op = op })

\* the bucket of the words fires in this turn
Fires(words) == \E w \in words : Contains(Lower(prompt), w)

NoBucketFires ==
    /\ ~Fires(SeverityWords) /\ ~Fires(RecentWords) /\ ~Fires(AgentWords)
    /\ ~Fires(VulnWords) /\ ~Fires(AuthWords)

OneIf(b) == IF b THEN 1 ELSE 0

\* the record or the list of agents is fetched by the agent/host bucket, and
\* the record by the default branch when no bucket fires and there is a token
AgentLookups == TimesInvoked("get_agent_by_name") + TimesInvoked("get_agents")

\* every fetch after the health probe is made with the token of the prompt
SameTokenThroughout ==
    \A i \in 1..Len(client_calls) :
        client_calls[i].op # "health_check" =>
            client_calls[i].scope = ExtractAgentName(prompt)

\* C25: in a fetch-gated turn with a healthy probe each of the five buckets
\* issues its fetches if and only if one of its keywords is a substring of
\* the lower-cased prompt, whatever the other buckets do; all fetches of the
\* turn use the same extracted agent token; and the alert summary is fetched
\* exactly once when the severity bucket fires or when no bucket fires, and
\* never twice
C25_BucketsIndependent ==
    /\ SameTokenThroughout
    /\ TimesInvoked("get_alert_summary") <= 1
    /\ ContextAssembled =>
          /\ TimesInvoked("get_critical_alerts") = OneIf(Fires(SeverityWords))
          /\ TimesInvoked("get_alerts_from_indexer") = OneIf(Fires(RecentWords))
          /\ TimesInvoked("get_vulnerabilities") = OneIf(Fires(VulnWords))
          /\ TimesInvoked("get_failed_auth") = OneIf(Fires(AuthWords))
          /\ Fires(AgentWords) =>
                /\ AgentLookups = 1
                /\ TimesInvoked("get_agent_by_name") =
                      OneIf(ExtractAgentName(prompt) # NoAgent)
          /\ (~Fires(AgentWords) /\ ~NoBucketFires) => AgentLookups = 0
          /\ NoBucketFires =>
                /\ TimesInvoked("get_agents") = 0
                /\ TimesInvoked("get_agent_by_name") =
                      OneIf(ExtractAgentName(prompt) # NoAgent)
          /\ TimesInvoked("get_alert_summary") =
                OneIf(Fires(SeverityWords) \/ NoBucketFires)

\* the severity and the recent-alerts buckets both fired in a turn: critical
\* alerts, the summary (once) and the recent alerts were fetched
C25_Witness ==
    /\ run_pc = "returned"
    /\ run_result = "analysis"
    /\ Fires(SeverityWords)
    /\ Fires(RecentWords)
    /\ ~Fires(AuthWords)
    /\ OpsInvoked = { "health_check", "get_critical_alerts", "get_alert_summary",
                      "get_alerts_from_indexer" }
    /\ Len(client_calls) = 4

(***************************************************************************)
(* Properties of the retry loop (checked under Spec).                      *)
(***************************************************************************)
\* what a firing has persisted
ErrorsOf(f) ==
    SelectSeq(db_messages, LAMBDA m : m.fid = f.fid /\ m.kind = "error")

SuccessesOf(f) ==
    SelectSeq(db_messages, LAMBDA m : m.fid = f.fid /\ m.kind = "update")

ToolLogsOf(f) == SelectSeq(db_tools_log, LAMBDA l : l.fid = f.fid)

\* the firing's error messages carry the attempt numbers 1..n in this order
ErrorsNumbered(f, n) ==
    /\ Len(ErrorsOf(f)) = n
    /\ \A i \in 1..n : ErrorsOf(f)[i].attempt = i /\ ErrorsOf(f)[i].name = f.name

\* the firing set last_run of a record
StampedBy(f) == \E i \in 1..Len(db_agents) : db_agents[i].last_run = f.fid

\* the retry loop of f is over and every invocation of the target raised
AllRaised(f) == f.pc = "done" /\ f.response = "none" /\ f.store_faults = 0

\* C1: a firing of a job registered with R retries whose target raises on
\* every invocation invokes the target R+1 times, persists R+1 error
\* messages numbered 1..R+1, no success message and no tool-log entry, and
\* leaves last_run as it was
C1_AllAttemptsRaise ==
    \A f \in firings :
        AllRaised(f) =>
            /\ f.invocations = f.retries + 1
            /\ ErrorsNumbered(f, f.retries + 1)
            /\ Len(SuccessesOf(f)) = 0
            /\ Len(ToolLogsOf(f)) = 0
            /\ ~StampedBy(f)

C1_Witness ==
    \E f \in firings :
        /\ AllRaised(f)
        /\ f.retries = MaxRetries
        /\ f.invocations = MaxRetries + 1
        /\ Len(ErrorsOf(f)) = MaxRetries + 1

\* the target returned in f's attempt number f.attempt + 1, the attempts
\* before it having raised
Succeeded(f) == f.response # "none" /\ f.store_faults = 0

\* the position in the messages table of f's success message
SuccessPosition(f) ==
    CHOOSE i \in 1..Len(db_messages) :
        db_messages[i].fid = f.fid /\ db_messages[i].kind = "update"

\* the three writes of a successful attempt happen in this order: the
\* success message, the tool-log entry, last_run
WritesInOrder(f) ==
    /\ f.pc = "save_message" =>
          Len(SuccessesOf(f)) = 0 /\ Len(ToolLogsOf(f)) = 0 /\ ~StampedBy(f)
    /\ f.pc = "save_tool_log" =>
          Len(SuccessesOf(f)) = 1 /\ Len(ToolLogsOf(f)) = 0 /\ ~StampedBy(f)
    /\ f.pc = "update_last_run" =>
          Len(SuccessesOf(f)) = 1 /\ Len(ToolLogsOf(f)) = 1 /\ ~StampedBy(f)
    /\ f.pc = "done" =>
          Len(SuccessesOf(f)) = 1 /\ Len(ToolLogsOf(f)) = 1

\* the step that leaves the loop writes last_run of the job's record
LastRunWritten ==
    \A f \in firings :
        (f.pc = "update_last_run" /\ [f EXCEPT !.pc = "done"] \in firings') =>
            /\ db_agents' = UpdateLastRun(db_agents, f.name, f.fid)
            /\ \A i \in RowsNamed(db_agents, f.name) : db_agents'[i].last_run = f.fid

\* C2: when the target returns on attempt k <= R+1 the firing invokes it k
\* times and persists, in this order, k-1 error messages, one success
\* message, one tool-log entry and the new last_run; nothing is invoked or
\* written afterwards
C2_State ==
    \A f \in firings :
        Succeeded(f) =>
            /\ f.attempt + 1 <= f.retries + 1
            /\ f.invocations = f.attempt + 1
            /\ ErrorsNumbered(f, f.attempt)
            /\ WritesInOrder(f)
            /\ f.pc = "done" =>
                  \A i \in 1..Len(db_messages) :
                      (db_messages[i].fid = f.fid /\ db_messages[i].kind = "error")
                          => i < SuccessPosition(f)

C2_SuccessOnAttemptK == [](C2_State) /\ [][LastRunWritten]_vars

C2_Witness ==
    \E f \in firings :
        /\ Succeeded(f)
        /\ f.pc = "done"
        /\ f.attempt = MaxRetries
        /\ f.invocations = MaxRetries + 1
        /\ StampedBy(f)

(***************************************************************************)
(* Properties of the registry and the scheduler (checked under Spec).      *)
(***************************************************************************)
\* the timers the scheduler holds for a name
TimersOf(name) == JobsWithId(scheduler.jobs, name)

\* the handle of a name is the name's only timer, with the configuration of
\* the last registration, which the record store holds too
HandleIsTheTimer(name) ==
    (name \in DOMAIN jobs /\ scheduler.state = "running") =>
        /\ Cardinality(TimersOf(name)) = 1
        /\ \A i \in TimersOf(name) :
              [scheduler.jobs[i] EXCEPT !.paused = FALSE] = jobs[name]
        /\ \A i \in RowsNamed(db_agents, name) :
              /\ db_agents[i].interval_minutes = jobs[name].minutes
              /\ db_agents[i].prompt = jobs[name].prompt

OneTimerPerName ==
    \A name \in Names :
        /\ Cardinality(TimersOf(name)) <= 1
        /\ HandleIsTheTimer(name)

\* a firing that begins takes prompt and retries from the last registration
FiringFollowsLastRegistration ==
    \A g \in firings' :
        g.fid > firings_begun =>
        /\ g.name \in DOMAIN jobs
        /\ g.prompt = jobs[g.name].prompt
        /\ g.retries = jobs[g.name].retries
        /\ \A i \in RowsNamed(db_agents, g.name) : db_agents[i].prompt = g.prompt

\* C3: after any sequence of register, unregister, pause and resume calls
\* made one at a time every name has at most one live timer; a name
\* registered again has exactly one handle, and the firings that begin
\* afterwards follow the interval, prompt and retries of the last registration
C3_OneTimerLastRegistrationWins ==
    [](OneTimerPerName) /\ [][FiringFollowsLastRegistration]_vars

\* a firing under the first schedule has left its tool-log entry, the name has
\* been registered again with the second schedule, and a firing has begun
C3_Witness ==
    \E name \in DOMAIN jobs, f \in firings :
        /\ f.name = name
        /\ f.prompt = SecondSchedule.prompt
        /\ jobs[name].minutes = SecondSchedule.minutes
        /\ Cardinality(TimersOf(name)) = 1
        /\ \E i \in 1..Len(db_tools_log) :
              /\ db_tools_log[i].tool_name = name
              /\ db_tools_log[i].usage = FirstSchedule.prompt

\* C7: no exception escapes register, unregister, pause, resume, status,
\* list_active or shutdown, whatever the record store and the scheduler do
C7_NoExceptionEscapes == last_error = NoError

(***************************************************************************)
(* Properties of concurrent firings (checked under PairSpec).              *)
(***************************************************************************)
FiringsOf(name) == { f \in firings : f.name = name }

\* C6: at most one execution of the retry loop of a name is in progress,
\* also while the loop sleeps between attempts and when the name is
\* registered again during a firing; firings of different names overlap
C6_NoOverlapPerName ==
    \A name \in Names : Cardinality(FiringsOf(name)) <= 1

\* two names fire at the same time; one firing sleeps between its attempts
\* and its name has been registered again since it began
C6_Witness ==
    \E f \in firings, g \in firings :
        /\ f.name # g.name
        /\ f.pc = "sleep"
        /\ \E i \in LiveTimers(scheduler) :
              /\ scheduler.jobs[i].id = f.name
              /\ scheduler.jobs[i].prompt # f.prompt

(***************************************************************************)
(* Properties of a job bound to the intent router (checked under JobSpec). *)
(***************************************************************************)
\* what run returns when the health probe or the model invocation failed
FailureResponses == { "cannot_connect", "error_analyzing", "error" }

\* C5: when the target is the intent router and its fetch layer reports
\* failure or its model invocation fails during an attempt, the attempt is a
\* job failure: no success message and no last_run update come from it, and
\* an error message is persisted
C5_RouterFailureIsJobFailure ==
    \A f \in firings :
        (f.target = "soc" /\ f.response \in FailureResponses) =>
            /\ Len(SuccessesOf(f)) = 0
            /\ ~StampedBy(f)
            /\ f.pc = "done" => Len(ErrorsOf(f)) >= 1

(***************************************************************************)
(* Properties of concurrent callers (checked under RaceSpec).              *)
(***************************************************************************)
\* no caller is inside an operation
CallsFinished == \A t \in Threads : threads[t].pc = "idle"

\* C4: whatever the interleaving of two concurrent calls on one name
\* (register with register, register with unregister), once both have
\* finished the registry holds a handle for the name if and only if the
\* scheduler holds a timer for it, and the scheduler holds at most one
C4_ReplacingIsRaceFree ==
    CallsFinished =>
        \A name \in Names :
            /\ (name \in DOMAIN jobs) <=> (TimersOf(name) # {})
            /\ Cardinality(TimersOf(name)) <= 1

(***************************************************************************)
(* The alert summary alone: one call of get_alert_summary on each input.   *)
(***************************************************************************)
SummaryInit == MgrInit /\ TurnInit /\ SumInit /\ StoreIdle /\ CallerIdle /\ NeverPaused /\ ExtraIdle /\ ~store_flaky

SummaryNext == Summary_Fetch \/ Summary_Count \/ Summary_Return

SummarySpec == SummaryInit /\ [][SummaryNext]_vars

(***************************************************************************)
(* Properties of the alert summary (checked under SummarySpec).            *)
(***************************************************************************)
\* the bucket the claim assigns to level l
BucketOfLevel(l) ==
    CASE l >= 13 -> "critical"
      [] 8 <= l /\ l < 13 -> "high"
      [] 4 <= l /\ l < 8 -> "medium"
      [] l < 4 -> "low"

\* the step that consumes an alert increments exactly one counter, the one of
\* the alert's level, by one
ExactlyOneBucket ==
    alert_index' = alert_index + 1 =>
        LET l == LevelOf(AlertsToCount[alert_index + 1])
            grown == { k \in SeverityKeys : summary'[k] # summary[k] }
        IN  /\ grown = { BucketOfLevel(l) }
            /\ \A k \in grown : summary'[k] = summary[k] + 1

\* the counters add up to the number of alerts consumed, and the returned
\* total is the number of alerts summarised
TotalIsCount ==
    /\ summary_pc \in { "loop", "returned" } => SumValues(summary) = alert_index
    /\ (summary_pc = "returned" /\ summary_result.success) =>
          /\ summary_result.total_alerts = Len(AlertsToCount)
          /\ SumValues(summary_result.summary) = Len(AlertsToCount)

\* C11: for every integer level L in -5..30 (and for an alert without a
\* level, which counts as level 0) get_alert_summary increments exactly one
\* of critical, high, medium, low: critical iff L >= 13, high iff
\* 8 <= L < 13, medium iff 4 <= L < 8, low iff L < 4; hence total_alerts
\* equals the number of alerts summarised
C11_BucketsTotalAndExclusive ==
    [](TotalIsCount) /\ [][ExactlyOneBucket]_vars

\* a summary of two alerts on either side of a boundary has been returned
C11_Witness ==
    /\ summary_pc = "returned"
    /\ summary_result.success
    /\ \E i \in 1..Len(AlertsToCount), j \in 1..Len(AlertsToCount) :
          /\ LevelOf(AlertsToCount[i]) = 13
          /\ LevelOf(AlertsToCount[j]) = 12
    /\ summary_result.summary["critical"] = 1
    /\ summary_result.summary["high"] = 1
    /\ summary_result.total_alerts = 2

(***************************************************************************)
(* The record store alone: any sequence of calls on the configs table.     *)
(***************************************************************************)
StoreNext == Store_Save \/ Store_UpdateLastRun \/ Store_Delete

StoreSpec == Init /\ [][StoreNext]_vars

(***************************************************************************)
(* Properties of the record store (checked under StoreSpec).               *)
(***************************************************************************)
\* the records get_proactive_agents() returns for a name
RecordsOf(name) ==
    { i \in 1..Len(GetProactiveAgents(db_agents)) :
          GetProactiveAgents(db_agents)[i].name = name }

\* the saves of a name that no delete of the name follows
StandingSaves(name) ==
    { i \in 1..Len(store_calls) :
        /\ store_calls[i].op = "save"
        /\ store_calls[i].name = name
        /\ \A j \in (i + 1)..Len(store_calls) :
              ~(store_calls[j].op = "delete" /\ store_calls[j].name = name) }

\* the most recent of them
LastSave(name) ==
    CHOOSE i \in StandingSaves(name) : \A j \in StandingSaves(name) : j <= i

\* C12: after any sequence of save_proactive_agent,
\* update_proactive_agent_last_run and delete_proactive_agent calls,
\* get_proactive_agents() returns at most one record per name; a name saved
\* since its last delete has exactly one, with the prompt and the
\* interval_minutes of its most recent save, and another name has none
C12_UpsertByName ==
    \A name \in Names :
        /\ Cardinality(RecordsOf(name)) <= 1
        /\ IF StandingSaves(name) = {}
           THEN RecordsOf(name) = {}
           ELSE /\ Cardinality(RecordsOf(name)) = 1
                /\ \A i \in RecordsOf(name) :
                      LET rec == GetProactiveAgents(db_agents)[i]
                          sch == store_calls[LastSave(name)].sch
                      IN  /\ rec.prompt = sch.prompt
                          /\ rec.interval_minutes = sch.minutes

\* a name was saved, stamped with a last run, and saved again with another
\* prompt and interval: one record, with the second configuration
C12_Witness ==
    \E name \in Names :
        /\ Len(store_calls) = 3
        /\ store_calls[1] = StoreCall("save", name, FirstSchedule)
        /\ store_calls[2] = StoreCall("last_run", name, NoSchedule)
        /\ store_calls[3] = StoreCall("save", name, SecondSchedule)
        /\ Len(GetProactiveAgents(db_agents)) = 1
        /\ GetProactiveAgents(db_agents)[1].prompt = SecondSchedule.prompt
        /\ GetProactiveAgents(db_agents)[1].interval_minutes = SecondSchedule.minutes
        /\ GetProactiveAgents(db_agents)[1].last_run # NoRun

(***************************************************************************)
(* Two jobs and one caller of register, unregister, pause, resume and      *)
(* shutdown; no timer fires.                                               *)
(***************************************************************************)
\* what a call of the caller leaves alone
CallerFrame == UNCHANGED << turnVars, sumVars, store_calls, paused_at, extraVars >>

Registry_Register ==
    /\ \E n \in Names, sch \in Schedules :
         /\ AddProactiveAgent(n, sch.minutes, sch.prompt, "stub", 1)
         /\ last_call' = Called("add", n)
    /\ CallerFrame

Registry_Unregister ==
    /\ \E n \in Names :
         /\ RemoveProactiveAgent(n)
         /\ last_call' = Called("remove", n)
    /\ CallerFrame

Registry_Pause ==
    /\ \E n \in Names :
         /\ PauseProactiveAgent(n)
         /\ last_call' = Called("pause", n)
    /\ CallerFrame

Registry_Resume ==
    /\ \E n \in Names :
         /\ ResumeProactiveAgent(n)
         /\ last_call' = Called("resume", n)
    /\ CallerFrame

Registry_Shutdown ==
    /\ Shutdown_Begin
    /\ last_call' = Called("shutdown", "none")
    /\ CallerFrame

Registry_ShutdownReturns ==
    /\ Shutdown_End
    /\ UNCHANGED last_call
    /\ CallerFrame

RegistryNext ==
    \/ Registry_Register
    \/ Registry_Unregister
    \/ Registry_Pause
    \/ Registry_Resume
    \/ Registry_Shutdown
    \/ Registry_ShutdownReturns

RegistrySpec == Init /\ [][RegistryNext]_vars

(***************************************************************************)
(* Properties of the registry with two names (checked under RegistrySpec). *)
(***************************************************************************)
\* the persisted configs of the names other than name
ConfigsOfOthers(rows, name) == SelectSeq(rows, LAMBDA r : r.name # name)

\* unregister(name) on a name without a handle: nothing is raised, the
\* scheduler and its timers are as before, and so are the handles and the
\* configs of the other names
UnregisterUnknownIsSafe ==
    \A name \in Names :
        (name \notin DOMAIN jobs /\ RemoveProactiveAgent(name)) =>
            /\ last_error' = last_error
            /\ scheduler' = scheduler
            /\ jobs' = jobs
            /\ ConfigsOfOthers(db_agents', name) = ConfigsOfOthers(db_agents, name)

\* C13: unregister (remove_proactive_agent) called with a name that has no
\* live handle does not raise, cancels no timer, and leaves the handles and
\* persisted configs of every other name unchanged
C13_UnregisterUnknownName == [][UnregisterUnknownIsSafe]_vars

\* unregister was called last, for a name without a handle, while the other
\* name had its handle, its timer and its config, which are still there
C13_Witness ==
    \E name \in Names, other \in Names :
        /\ other # name
        /\ last_call.op = "remove"
        /\ last_call.name = name
        /\ ~last_call.had_handle
        /\ last_error = NoError
        /\ other \in DOMAIN jobs
        /\ JobsWithId(scheduler.jobs, other) # {}
        /\ RowsNamed(db_agents, other) # {}
        /\ RowsNamed(db_agents, name) = {}

\* shutdown() was called last and has returned or raised
ShutdownIsOver == last_call.op = "shutdown" /\ call_pc = "idle"

\* C17: after shutdown() no timer is live and the in-memory registry is
\* empty, so that status(n).active is false for every name n, while the
\* persisted configs, every field of each, are as the call found them
C17_ShutdownEmptiesRegistry ==
    ShutdownIsOver =>
        /\ LiveTimers(scheduler) = {}
        /\ jobs = EmptyDict
        /\ \A n \in Names : ~StatusRaises(n) /\ ~AgentStatus(n).active
        /\ db_agents = last_call.configs

(***************************************************************************)
(* One job whose operations are called while its firings run; a firing,    *)
(* once begun, keeps running: the executor's worker thread is scheduled    *)
(* and asyncio.sleep returns.                                              *)
(***************************************************************************)
\* the job is registered with MaxRetries retries, so that a firing has
\* attempts left when its name is unregistered or paused
CancelRegister ==
    /\ \E n \in OneName, sch \in Schedules :
         AddProactiveAgent(n, sch.minutes, sch.prompt, "stub", MaxRetries)
    /\ UNCHANGED << turnVars, sideVars >>

CancelNext ==
    \/ CancelRegister
    \/ Unregister
    \/ Pause
    \/ Resume
    \/ Fire
    \/ FiringStep

CancelSpec == Init /\ [][CancelNext]_vars /\ WF_vars(FiringStep)

(***************************************************************************)
(* Properties of cancellation (checked under CancelSpec).                  *)
(***************************************************************************)
\* the name has a timer that can fire
HasLiveTimer(name) ==
    \E i \in LiveTimers(scheduler) : scheduler.jobs[i].id = name

\* the firing fid is in progress and its name has been unregistered or paused
CancelledInProgress(fid) ==
    \E f \in firings :
        /\ f.fid = fid
        /\ f.pc # "done"
        /\ ~HasLiveTimer(f.name)

\* the retry loop of the firing fid is over, by success or by exhaustion of
\* its retries, and the messages of all its attempts are persisted
LoopCompleted(fid) ==
    \E f \in firings :
        /\ f.fid = fid
        /\ f.pc = "done"
        /\ \/ /\ Succeeded(f)
              /\ Len(SuccessesOf(f)) = 1
              /\ Len(ToolLogsOf(f)) = 1
              /\ ErrorsNumbered(f, f.attempt)
           \/ /\ AllRaised(f)
              /\ f.invocations = f.retries + 1
              /\ ErrorsNumbered(f, f.retries + 1)

\* unregister and pause leave the firings in progress and what they have
\* persisted as they are
CallsLeaveFirings ==
    \A name \in OneName :
        (RemoveProactiveAgent(name) \/ PauseProactiveAgent(name)) =>
            UNCHANGED << firings, instances, db_messages, db_tools_log >>

\* a firing begins only for a name whose timer is live
OnlyLiveTimersFire ==
    \A g \in firings' : g.fid > firings_begun => HasLiveTimer(g.name)

\* C14: a firing in progress when its name is unregistered or paused still
\* runs its retry loop to completion (success or exhaustion of its retries)
\* and persists the messages of its remaining attempts; unregister and pause
\* touch no firing in progress, and only prevent firings from beginning
C14_FiringInProgressCompletes ==
    /\ \A fid \in 1..MaxFirings : CancelledInProgress(fid) ~> LoopCompleted(fid)
    /\ [][CallsLeaveFirings]_vars
    /\ [][OnlyLiveTimersFire]_vars

\* a firing sleeps after its first attempt raised, its name was unregistered
\* meanwhile, and an attempt remains
C14_Witness ==
    \E f \in firings :
        /\ f.pc = "sleep"
        /\ f.attempt = 1
        /\ f.retries >= 1
        /\ f.name \notin DOMAIN jobs
        /\ RowsNamed(db_agents, f.name) = {}
        /\ ~HasLiveTimer(f.name)

(***************************************************************************)
(* One job that is paused and resumed while every other operation can be   *)
(* called and its firings run.                                             *)
(***************************************************************************)
\* what these calls leave alone
PauseFrame == UNCHANGED << turnVars, sumVars, store_calls, last_call, extraVars >>

\* unregister or shutdown is called: a pause that awaits its resume is cut
CutPause == IF paused_at.active THEN [paused_at EXCEPT !.cut = TRUE] ELSE paused_at

Pausing_Register ==
    /\ AddAmong(OneName, Schedules, "stub")
    /\ paused_at' = NoPause
    /\ PauseFrame

Pausing_Unregister ==
    /\ \E n \in OneName : RemoveProactiveAgent(n)
    /\ paused_at' = CutPause
    /\ PauseFrame

Pausing_Pause ==
    /\ \E n \in OneName :
         /\ PauseProactiveAgent(n)
         /\ paused_at' = IF n \in DOMAIN jobs /\ ~paused_at.active
                          THEN PauseFinds(n)
                          ELSE paused_at
    /\ PauseFrame

Pausing_Resume ==
    /\ \E n \in OneName : ResumeProactiveAgent(n)
    /\ paused_at' = NoPause
    /\ PauseFrame

Pausing_Shutdown ==
    /\ Shutdown_Begin
    /\ paused_at' = IF scheduler.state = "running" THEN CutPause ELSE paused_at
    /\ PauseFrame

Pausing_ShutdownReturns ==
    /\ Shutdown_End
    /\ UNCHANGED paused_at
    /\ PauseFrame

PauseNext ==
    \/ Pausing_Register
    \/ Pausing_Unregister
    \/ Pausing_Pause
    \/ Pausing_Resume
    \/ Pausing_Shutdown
    \/ Pausing_ShutdownReturns
    \/ Fire
    \/ FiringStep

PauseSpec == Init /\ [][PauseNext]_vars

(***************************************************************************)
(* Properties of pause and resume (checked under PauseSpec).               *)
(***************************************************************************)
\* the persisted config of a name
ConfigOf(name) == SelectSeq(db_agents, LAMBDA r : r.name = name)

\* the same without last_run
Settings(rows) ==
    [i \in 1..Len(rows) |->
        [name |-> rows[i].name, prompt |-> rows[i].prompt,
         interval_minutes |-> rows[i].interval_minutes]]

\* no firing begins in this step
NoFiringBegins == \A g \in firings' : g.fid <= firings_begun

\* from a pause to the next resume or register no firing begins
PausedTimerIsSilent == paused_at.active => NoFiringBegins

\* pause and resume of a name without a handle change nothing
PauseOfUnknownIsNoop ==
    \A name \in OneName :
        (name \notin DOMAIN jobs
           /\ (PauseProactiveAgent(name) \/ ResumeProactiveAgent(name))) =>
            UNCHANGED mgrVars

\* C15 as stated: from a pause of a registered job to the next resume or
\* register the name keeps its handle and its persisted config unchanged
C15_AsStated ==
    paused_at.active =>
        \A name \in OneName :
            /\ name \in DOMAIN jobs
            /\ jobs[name] = paused_at.handle
            /\ ConfigOf(name) = paused_at.config

\* the handle and the settings of the config are those the pause found
KeptSincePause ==
    (paused_at.active /\ ~paused_at.cut) =>
        \A name \in OneName :
            /\ name \in DOMAIN jobs
            /\ jobs[name] = paused_at.handle
            /\ Settings(ConfigOf(name)) = Settings(paused_at.config)

\* C15, amended: from a pause of a registered job to the next resume or
\* register no firing of the name begins; until then, or until an earlier
\* unregister or shutdown, the name keeps its handle and the name, prompt
\* and interval_minutes of its persisted config (last_run can still be
\* written by a firing that was in progress when pause was called); pause
\* and resume on a name without a handle change nothing
C15_PauseKeepsHandleAndSettings ==
    /\ [](KeptSincePause)
    /\ [][PausedTimerIsSilent]_vars
    /\ [][PauseOfUnknownIsNoop]_vars

\* the job was paused while a firing was in progress; the firing has ended
\* and has written last_run, and the timer is still paused
C15_Witness ==
    \E name \in OneName :
        /\ paused_at.active
        /\ ~paused_at.cut
        /\ firings = {}
        /\ firings_begun = 1
        /\ ~HasLiveTimer(name)
        /\ scheduler.state = "running"
        /\ ConfigOf(name) # paused_at.config
        /\ Settings(ConfigOf(name)) = Settings(paused_at.config)

(***************************************************************************)
(* One job that is registered and left to fire: its timer comes due again  *)
(* and again, and a firing, once begun, keeps running.                     *)
(***************************************************************************)
RecurNext ==
    \/ Register
    \/ Fire
    \/ FiringStep

RecurSpec ==
    Init /\ [][RecurNext]_vars /\ WF_vars(Fire) /\ WF_vars(FiringStep)

(***************************************************************************)
(* Properties of recurrence (checked under RecurSpec).                     *)
(***************************************************************************)
\* a step of a firing in progress, its end included
StepOfAFiring == firings' # firings /\ firings_begun' = firings_begun

\* no step of a firing touches the handles, the timers or the settings of
\* the persisted configs
FiringLeavesSchedule ==
    StepOfAFiring =>
        /\ jobs' = jobs
        /\ scheduler' = scheduler
        /\ Settings(db_agents') = Settings(db_agents)

\* a registered name has its live, unpaused timer with the handle's interval
StaysScheduled ==
    \A name \in DOMAIN jobs :
        \E i \in LiveTimers(scheduler) :
            /\ scheduler.jobs[i].id = name
            /\ scheduler.jobs[i].minutes = jobs[name].minutes

\* a firing begins with no attempt made and no failure counted
FiringStartsAfresh ==
    \A g \in firings' :
        g.fid > firings_begun =>
            /\ g.attempt = 0
            /\ g.invocations = 0
            /\ g.retries = jobs[g.name].retries

\* every firing has all its attempts, whatever the firings before it did
FullAttemptsEachFiring ==
    \A f \in firings : AllRaised(f) => f.invocations = f.retries + 1

\* C16: no step of a firing changes the job's schedule: when a firing ends,
\* by success or by exhausting its retries, the job has its handle and its
\* live unpaused timer with the same interval, so that (the timer coming
\* due, and no pause, unregister or shutdown being called) the job fires
\* again; a firing starts with attempt 0 whatever the firing before it did
C16_OutcomeLeavesSchedule ==
    /\ [][FiringLeavesSchedule]_vars
    /\ [](StaysScheduled)
    /\ [][FiringStartsAfresh]_vars
    /\ [](FullAttemptsEachFiring)
    /\ \A k \in 1..(MaxFirings - 1) :
          (firings_begun = k) ~> (firings_begun = k + 1)

\* the first firing exhausted its retries, and the second firing of the job
\* has made its first attempt of its own
C16_Witness ==
    \E f \in firings :
        /\ f.fid = 2
        /\ f.invocations = 1
        /\ f.retries = MaxRetries
        /\ Len(SelectSeq(db_messages,
                         LAMBDA m : m.fid = 1 /\ m.kind = "error")) = MaxRetries + 1
        /\ HasLiveTimer(f.name)

(***************************************************************************)
(* One call of get_critical_alerts on an indexer that holds any window.    *)
(***************************************************************************)
CriticalInit ==
    MgrInit /\ TurnInit /\ SumIdle /\ StoreIdle /\ CallerIdle /\ NeverPaused
    /\ CritInit /\ MsgIdle /\ PrefsInit /\ ChatIdle /\ ~store_flaky

CriticalNext == Critical_Fetch \/ Critical_Return

CriticalSpec == CriticalInit /\ [][CriticalNext]_vars

\* the alerts within the window, for the scope of the call, of level >= 13
CriticalInWindow ==
    SelectSeq(Expand(crit_window),
              LAMBDA al : MatchesScope(al, crit_scope) /\ LevelOf(al) >= 13)

CriticalAnswered == crit_pc = "returned" /\ crit_result.success

\* the detail list holds at most 50 alerts, all of them critical
DetailListCapped ==
    CriticalAnswered =>
        /\ Len(crit_result.critical_alerts) <= 50
        /\ \A i \in 1..Len(crit_result.critical_alerts) :
              LevelOf(crit_result.critical_alerts[i]) >= 13

\* C21: get_critical_alerts returns at most 50 items in critical_alerts, and
\* total_critical is the number of alerts within the window, for the scope of
\* the call, of level >= 13, however many alerts the window holds
C21_TotalCriticalUncapped ==
    /\ DetailListCapped
    /\ CriticalAnswered => crit_result.total_critical = Len(CriticalInWindow)

(***************************************************************************)
(* The messages table alone: saves and reads across sessions.              *)
(***************************************************************************)
MessageNext == Msg_Save \/ Msg_GetAll

MessageSpec == Init /\ [][MessageNext]_vars

\* the messages saved with session_id s by the first n save_message calls, in
\* the order they were saved, each with its role and content
SavedWith(s, n) ==
    LET mine == SelectSeq(SubSeq(msg_saved, 1, n), LAMBDA m : m.session_id = s)
    IN  [i \in 1..Len(mine) |-> [role |-> mine[i].role, content |-> mine[i].content]]

NonEmptySessionRead ==
    (msg_got.called /\ msg_got.session_id # "") =>
        msg_got.rows = SavedWith(msg_got.session_id, msg_got.after)

PrefsNext ==
    \/ \E m \in DbManagers : InitDb_Count(m)
    \/ \E m \in DbManagers : InitDb_Insert(m)
    \/ Prefs_Update
    \/ Prefs_Get

PrefsSpec == Init /\ [][PrefsNext]_vars

\* once an init_db has returned, the table holds exactly one record
OneRecord == TablesExist => Len(db_prefs) = 1

\* a get that follows an update returns the update's values
GetReturnsLastUpdate ==
    (prefs_got.called /\ prefs_got.after.called) =>
        /\ prefs_got.value.enabled = prefs_got.after.enabled
        /\ prefs_got.value.interval = prefs_got.after.interval

\* C23: the preferences hold exactly one record in every reachable state of
\* an initialised store, also when several DatabaseManager instances
\* initialise it, and get_user_preferences() returns the values of the most
\* recent update_user_preferences(enabled, interval)
C23_PreferencesSingleton == OneRecord /\ GetReturnsLastUpdate

(***************************************************************************)
(* Properties of a firing whose store writes can fail (checked under       *)
(* FaultSpec).                                                             *)
(***************************************************************************)
\* a firing whose target has returned a response does not invoke it again
NoInvocationAfterReturn ==
    \A f \in firings : \A g \in firings' :
        (g.fid = f.fid /\ f.response # "none") => g.invocations = f.invocations

AtMostOneSuccessMessage ==
    \A fid \in 1..firings_begun :
        Len(SelectSeq(db_messages, LAMBDA m : m.fid = fid /\ m.kind = "update")) <= 1

\* C24: once an invocation of the target has returned without raising in a
\* firing, the target is never invoked again in that firing and the firing
\* persists at most one success message, even when a record-store write that
\* follows the invocation fails
C24_SuccessEndsTheLoop ==
    [](AtMostOneSuccessMessage) /\ [][NoInvocationAfterReturn]_vars

(***************************************************************************)
(* Properties of status and list_active (checked under Spec).              *)
(***************************************************************************)
\* what list_active_agents() returns when no get_agent_status raises
ActiveList == [n \in DOMAIN jobs |-> AgentStatus(n)]

\* no call of get_agent_status or list_active_agents has raised
StatusNeverRaised == last_error.op \notin { "status", "list" }

\* status(n) is active exactly when n holds a handle, and reports no fire
\* time for a name without a handle
StatusMirrorsHandles ==
    call_pc = "idle" =>
        \A n \in Names :
            /\ ~StatusRaises(n)
            /\ AgentStatus(n).active = (n \in DOMAIN jobs)
            /\ n \notin DOMAIN jobs => AgentStatus(n).next_run = "none"

\* C26: after any sequence of register, unregister, pause, resume and
\* shutdown calls, list_active_agents() has exactly the names that hold a
\* handle, and get_agent_status(n) reports active=true with n's next fire
\* time when n holds a handle and {next_run: absent, active: false} when n
\* was never registered, was unregistered, or the manager was shut down
C26_StatusMirrorsRegistry ==
    /\ StatusNeverRaised
    /\ StatusMirrorsHandles
    /\ DOMAIN ActiveList = DOMAIN jobs

(***************************************************************************)
(* The chat tab: a user who submits prompts, one turn after the other.     *)
(***************************************************************************)
ChatTabNext ==
    \/ Chat_NewSession
    \/ Chat_Submit
    \/ Chat_LoadHistory
    \/ Chat_RunAgent
    \/ Chat_SaveResponse

ChatTabSpec == Init /\ [][ChatTabNext]_vars

\* the messages of the current session, oldest first
SessionMessages ==
    LET mine == SelectSeq(db_messages, LAMBDA r : r.session_id = chat_session)
    IN  [i \in 1..Len(mine) |-> [role |-> mine[i].role, content |-> mine[i].content]]

\* the messages of the session that precede the prompt being processed
BeforeThePrompt == SubSeq(SessionMessages, 1, Len(SessionMessages) - 1)

\* the history handed to the agent is the latest 10 messages of the session
HistoryIsTheLatest ==
    chat_pc \in { "loaded", "ran" } =>
        recent_messages = LastN(SessionMessages, 10)

\* the messages replayed to the model are the last 5 that precede the prompt
ReplayIsTheLastFive ==
    chat_pc = "ran" =>
        llm_messages = Append(LastN(BeforeThePrompt, 5),
                              [role |-> "user", content |-> user_input])

\* C27: when a user submits a prompt in the chat tab, the history handed to
\* the agent is the most recent messages of the current session (the latest
\* 10, in order), so that in the no-fetch branch the messages replayed to the
\* model are the last 5 that precede the prompt, whatever the length of the
\* session
C27_HistoryIsMostRecent == HistoryIsTheLatest /\ ReplayIsTheLastFive

(***************************************************************************)
(* A caller of register, unregister, pause and resume on two names, on a   *)
(* sound store, with no shutdown.                                          *)
(***************************************************************************)
LifecycleNext ==
    \/ Registry_Register
    \/ Registry_Unregister
    \/ Registry_Pause
    \/ Registry_Resume

LifecycleSpec == Init /\ [][LifecycleNext]_vars

HoldsHandle(name) == name \in DOMAIN jobs

\* the scheduler holds a timer for the name, running or paused
HoldsTimer(name) == \E i \in 1..Len(scheduler.jobs) : scheduler.jobs[i].id = name

HasConfig(name) == \E i \in 1..Len(db_agents) : db_agents[i].name = name

\* C28: starting from an empty store and a fresh manager, in every state
\* reached by register, unregister, pause and resume calls that are executed
\* one at a time and complete without error, a name has a handle in the
\* registry if and only if the scheduler holds a timer for it and if and only
\* if a persisted config with that name exists
C28_HandleTimerConfigAgree ==
    last_error = NoError =>
        \A name \in Names :
            /\ HoldsHandle(name) <=> HoldsTimer(name)
            /\ HoldsHandle(name) <=> HasConfig(name)

\* one name was registered and then paused and has all three; the other was
\* registered and has just been unregistered and has none of the three
C28_Witness ==
    /\ last_error = NoError
    /\ last_call.op = "remove"
    /\ last_call.had_handle
    /\ ~HoldsHandle(last_call.name) /\ ~HoldsTimer(last_call.name)
    /\ ~HasConfig(last_call.name)
    /\ \E other \in Names \ { last_call.name } :
          /\ HoldsHandle(other) /\ HasConfig(other)
          /\ \E i \in 1..Len(scheduler.jobs) :
                scheduler.jobs[i].id = other /\ scheduler.jobs[i].paused

(***************************************************************************)
(* Properties of a manager that was shut down (checked under Spec).        *)
(***************************************************************************)
\* the scheduler was started and then shut down
WasShutDown == scheduler.state = "stopped"

\* a scheduler that was shut down stays so, and no firing begins
StaysShutDown ==
    WasShutDown => (WasShutDown' /\ firings_begun' = firings_begun)

\* register after the shutdown still persists the config and records a handle
RegisterAfterShutdown ==
    (WasShutDown /\ Register) =>
        \A name \in OneName : HoldsHandle(name)' /\ HasConfig(name)'

\* C29: once shutdown() has been called on a manager whose scheduler had
\* been started, the scheduler is never started again, so no firing begins
\* afterwards, including for names passed to register after the shutdown
\* (register still persists their config and records a handle)
C29_ShutdownIsFinal ==
    [][StaysShutDown]_vars /\ [][RegisterAfterShutdown]_vars

\* a name was registered after the shutdown: it has a handle, a persisted
\* config and an unpaused job that the stopped scheduler keeps pending, and
\* the timer could still begin a firing if the scheduler were running
C29_Witness ==
    /\ WasShutDown
    /\ call_pc = "idle"
    /\ firings_begun < MaxFirings
    /\ \E name \in OneName :
          /\ HoldsHandle(name) /\ HasConfig(name)
          /\ \E i \in 1..Len(scheduler.pending) :
                scheduler.pending[i].id = name /\ ~scheduler.pending[i].paused

(***************************************************************************)
(* One job that is unregistered while its firings are in progress: the     *)
(* caller's last register or unregister call is recorded.                  *)
(***************************************************************************)
Late_Register ==
    /\ \E n \in OneName, sch \in Schedules :
         /\ AddProactiveAgent(n, sch.minutes, sch.prompt, "stub", MaxRetries)
         /\ last_call' = Called("add", n)
    /\ CallerFrame

Late_Unregister ==
    /\ \E n \in OneName :
         /\ RemoveProactiveAgent(n)
         /\ last_call' = Called("remove", n)
    /\ CallerFrame

LateNext == Late_Register \/ Late_Unregister \/ Fire \/ FiringStep

LateSpec == Init /\ [][LateNext]_vars

\* unregister(name) has returned and no register has followed
Unregistered(name) == last_call.op = "remove" /\ last_call.name = name

\* the firing fid has left the retry loop with a response, all its store
\* writes done
CompletedSuccessfully(fid) ==
    /\ \A f \in firings : f.fid = fid => (f.pc = "done" /\ Succeeded(f))
    /\ \E i \in 1..Len(db_messages) :
          db_messages[i].fid = fid /\ db_messages[i].kind = "update"
    /\ \E i \in 1..Len(db_tools_log) : db_tools_log[i].fid = fid

\* C30: after unregister(name) has returned, no persisted config with that
\* name exists until the next register(name), even when a firing of name that
\* was already in progress completes successfully afterwards: its success
\* message and tool log are persisted, its last_run update creates no record
C30_NoResurrection ==
    \A name \in OneName : Unregistered(name) => ~HasConfig(name)

\* the only firing of the job had not written last_run when unregister found
\* the config, and has completed successfully since: the table is empty
C30_Witness ==
    /\ Unregistered("daily-scan")
    /\ last_call.had_handle
    /\ Len(last_call.configs) = 1
    /\ last_call.configs[1].last_run = NoRun
    /\ firings_begun = 1
    /\ CompletedSuccessfully(1)
    /\ db_agents = << >>

=============================================================================
